---- MODULE Spec2Model ----
(***************************************************************************)
(* Page-image render-and-cache pipeline of react-native-pdf-light.         *)
(*                                                                         *)
(* Spec          the Android paging / scrolling PDF views                  *)
(*               (PagingPdfView.kt, ZoomablePdfScrollView.kt) with the     *)
(*               shared pdfMutex, PdfPageRenderer.renderPage, the          *)
(*               LruCache page cache and the RecyclerView page holders,    *)
(*               under every handler of the view.                          *)
(* SpecRender    the same views under load, layout, bind and render only.  *)
(* SpecDrawable  DrawablePdfView.renderPdf with its render generation.     *)
(* SpecCache     the page cache driven by arbitrary put/get/evictAll.      *)
(***************************************************************************)
EXTENDS Integers, Sequences, FiniteSets, TLC

\* ------------------------------------------------------------------ bounds
MaxTasks == 2

MaxReloads == 2

NumHolders == 1

MaxCacheOps == 4

MaxDrawTasks == 2

MaxDrawUpdates == 3

MaxScrolls == 3

MaxAnnotationUpdates == 1

MaxTouches == 4

MaxModeChanges == 2

\* --------------------------------------------------------- the environment
\* Files on disk: two PDF documents A and B, a file C that is not a PDF, and
\* a path X that does not exist.
Sources == {"A", "B", "X"}

FileExists(s) == s \in {"A", "B", "C"}

\* PdfRenderer(fd) accepts the file.
ValidPdf(s) == s \in {"A", "B"}

\* The sources of SpecSession: a document and the two ways an open fails.
SessionSources == {"A", "X", "C"}

DocPageCount(d) == IF d = "A" THEN 2 ELSE IF d = "B" THEN 1 ELSE 0

\* Page box of every page of document d, in PDF points (width, height).
DocPageWidth(d) == IF d = "A" THEN 1 ELSE IF d = "B" THEN 1 ELSE 0

DocPageHeight(d) == IF d = "A" THEN 1 ELSE IF d = "B" THEN 2 ELSE 0

\* View sizes delivered by layout: <<width, height>>.
Sizes == {<<16, 16>>, <<32, 16>>}

\* Runtime.getRuntime().maxMemory() of the process, in bytes.
RuntimeMaxMemory == 40 * 1024

\* What the platform does with one rasterization: success, an Exception
\* thrown by Page.render, or an OutOfMemoryError from Bitmap.createBitmap.
RenderOutcomes == {"ok", "exception", "oom"}

\* eraseThresholdPercent of DrawablePdfView, in thousandths of the page.
eraseThresholdPercent == 30

\* mResizeMode of DrawablePdfView.
mResizeMode == "contain"

\* Annotation pages: the number of points of each stroke, and the number of
\* text entries.
EmptyAnnotationPage == [strokes |-> <<>>, text |-> 0]

InkAnnotationPage == [strokes |-> <<1, 2>>, text |-> 1]

\* Values of the annotation prop: the empty string, text that does not
\* decode, and JSON that decodes to a list of pages.
AnnotationProps ==
    {[source |-> "empty", pages |-> <<>>],
     [source |-> "malformed", pages |-> <<>>],
     [source |-> "json", pages |-> <<InkAnnotationPage>>],
     [source |-> "json", pages |-> <<EmptyAnnotationPage, InkAnnotationPage>>]}

NoPosition == -1

NoPage == -1

\* Number of horizontal strips DrawablePdfView cuts a rendered page into.
SLICES == 4

\* The one layout size of SpecRender, and the sizes DrawablePdfView is laid out at.
RenderSizes == {<<16, 16>>}

DrawSizes == {<<16, 16>>, <<16, 32>>, <<16, 2>>}

\* Layout sizes with a height that SLICES divides and one that it does not.
SliceSizes == {<<16, 16>>, <<16, 5>>}

\* Scales are in hundredths: 100 is 1f.  The defaults of mMinScale and
\* mMaxScale of PagingPdfView, which its holders copy at every bind.
mMinScale == 100

mMaxScale == 300

\* detector.scaleFactor of a pinch step, in percent.
ScaleFactors == {50, 200}

\* animatedValue of the frames of a zoom animation, in percent.
AnimFractions == {50, 100}

\* Layout sizes of the views whose current page is followed, the page
\* arguments of scrollToPage and the zoom props of the drawable view.
PagerSizes == {<<16, 16>>, <<16, 24>>, <<16, 32>>}

ScrollArgs == -1..2

ZoomProps == {25, 100, 200, 400}

\* Keys and bitmap sizes the cache is driven with in SpecCache.
DrivenKeys == 0..2

DrivenSizes == {<<8, 8>>, <<16, 16>>, <<32, 16>>, <<32, 32>>, <<64, 32>>}

\* ------------------------------------------------------------------ state
VARIABLES
    viewKind,            \* "paging" (PagingPdfView) or "scroll" (ZoomablePdfScrollView)
    mSource,
    mPdfRenderer,        \* index into handles, 0 = null
    mFileDescriptor,     \* index into fds, 0 = null
    mPdfPageWidth,
    mPdfPageHeight,
    mActualPageCount,
    mImageCache,         \* LruCache<Int, Bitmap>: entries eldest first
    mPreviousWidth,
    mNeedsInitialRender,
    viewSize,            \* <<width, height>> of the view
    attached,
    scopeCancelled,      \* renderScope.cancel() was called
    holders,             \* RecyclerView holders: bindingAdapterPosition and shown image
    tasks,               \* coroutines launched by renderPage
    handles,             \* every PdfRenderer ever opened
    fds,                 \* every ParcelFileDescriptor ever opened
    pdfMutex,            \* 0 = free, t = held by render task t, -1 = held by the UI thread
    uiPc,                \* where the UI thread is
    events,              \* events sent to JS
    nReloads,
    \* DrawablePdfView
    dSource,             \* mSource of the drawable view
    dPage,               \* mPage
    dSize,               \* <<width, height>> of the drawable view
    mDirty,
    mRenderGeneration,
    mBitmaps,            \* the SLICES strips shown by onDraw
    mViewRects,          \* the SLICES rectangles of the view the strips are drawn into
    dTasks,              \* coroutines launched by renderPdf
    dPosted,             \* renderPdf calls posted by onSizeChanged, not yet run
    dEvents,             \* events sent to JS by the drawable view
    nDrawUpdates,
    \* cache driver
    lastPut,             \* the latest put: its number, key, value and what it evicted
    lastGet,             \* the latest get: its number, key and result
    nCacheOps,
    \* zoom of the pages of PagingPdfView
    pageZoom,            \* per holder: scale, minZoom, maxZoom and zoomAnimator of its ZoomablePageView
    isUserInputEnabled,  \* mViewPager.isUserInputEnabled
    \* current page
    mCurrentPage,
    currentItem,         \* mViewPager.currentItem
    scrollY,             \* scroll offset of mRecyclerView of ZoomablePdfScrollView
    nPageChanges,        \* onPageChange events sent to JS
    nScrolls,
    \* zoom of DrawablePdfView
    mScale,
    dMinScale,           \* mMinScale of the drawable view
    dMaxScale,           \* mMaxScale of the drawable view
    mOffsetX,            \* pan offset of the drawable view, in pixels
    mOffsetY,
    \* annotations and drawing of DrawablePdfView
    mAnnotation,         \* the annotation pages composited into a render
    nAnnotationUpdates,
    mPdfContentRect,     \* where the page sits in the view
    mDrawingMode,
    mActiveStroke,       \* the path of the stroke being drawn, <<>> when there is none
    mStrokes,            \* the paths of the strokes of the view
    drawingEvents,       \* onDrawingStart, onStrokeEnd, onStrokeRemoved, onDrawingEnd sent to JS
    pointerDown,         \* a finger is on the view
    nTouches,
    nModeChanges

documentVars == <<viewKind, mSource, mPdfRenderer, mFileDescriptor, mPdfPageWidth,
                  mPdfPageHeight, mActualPageCount, mPreviousWidth,
                  mNeedsInitialRender, viewSize, attached, scopeCancelled, holders,
                  tasks, handles, fds, events, nReloads>>

pagingVars == <<documentVars, uiPc>>

drawVars == <<dSource, dPage, dSize, mDirty, mRenderGeneration, mBitmaps,
              mViewRects, dTasks, dPosted, dEvents, nDrawUpdates>>

cacheDriverVars == <<lastPut, lastGet, nCacheOps>>

zoomVars == <<pageZoom, isUserInputEnabled>>

pagerVars == <<mCurrentPage, currentItem, scrollY, nPageChanges, nScrolls>>

drawZoomVars == <<mScale, dMinScale, dMaxScale, mOffsetX, mOffsetY>>

inkVars == <<mAnnotation, nAnnotationUpdates, mPdfContentRect, mDrawingMode,
             mActiveStroke, mStrokes, drawingEvents, pointerDown, nTouches,
             nModeChanges>>

gestureVars == <<zoomVars, pagerVars, drawZoomVars, inkVars>>

vars == <<pagingVars, mImageCache, pdfMutex, drawVars, cacheDriverVars, gestureVars>>

\* RectF(left, top, right, bottom).
RectF(left, top, right, bottom) ==
    [left |-> left, top |-> top, right |-> right, bottom |-> bottom]

\* ----------------------------------------------------------------- bitmaps
NoBitmap == [doc |-> "none", page |-> NoPage, w |-> 0, h |-> 0, task |-> 0]

\* A bitmap rasterized from page `page` of document `doc` at w x h pixels by
\* render task `task`.
Bitmap(doc, page, w, h, task) ==
    [doc |-> doc, page |-> page, w |-> w, h |-> h, task |-> task]

\* Bitmap.byteCount for ARGB_8888.
ByteCount(b) == b.w * b.h * 4

\* ------------------------------------------------------------ the LruCache
cacheSize == (RuntimeMaxMemory \div 1024) \div 8

sizeOf(key, bitmap) == ByteCount(bitmap) \div 1024

RECURSIVE CacheTotal(_)
CacheTotal(c) == IF c = <<>> THEN 0
                 ELSE sizeOf(Head(c).key, Head(c).value) + CacheTotal(Tail(c))

CacheKeys(c) == {c[i].key : i \in 1..Len(c)}

CacheIndex(c, k) == CHOOSE i \in 1..Len(c) : c[i].key = k

CacheRemove(c, k) == SelectSeq(c, LAMBDA e : e.key # k)

\* A trimToSize that evicts nothing.
trimToSizeKeepsAll(c, maxSize) == c

\* LruCache.trimToSize: evict the eldest entry while over capacity.
RECURSIVE trimToSize(_, _)
trimToSize(c, maxSize) ==
    IF CacheTotal(c) <= maxSize \/ c = <<>> THEN c
    ELSE trimToSize(Tail(c), maxSize)

\* LruCache.get: the value, or NoBitmap for a miss.
LruGet(c, k) == IF k \in CacheKeys(c) THEN c[CacheIndex(c, k)].value ELSE NoBitmap

\* LruCache.get also makes the entry the most recently used one.
LruTouch(c, k) ==
    IF k \in CacheKeys(c) THEN Append(CacheRemove(c, k), c[CacheIndex(c, k)]) ELSE c

\* A put that keeps the value already stored under the key.
LruPutKeepsOld(c, k, v) ==
    IF k \in CacheKeys(c) THEN c
    ELSE trimToSize(Append(c, [key |-> k, value |-> v]), cacheSize)

\* LruCache.put: insert or overwrite as most recently used, then trim.
LruPut(c, k, v) ==
    trimToSize(Append(CacheRemove(c, k), [key |-> k, value |-> v]), cacheSize)

evictAll(c) == <<>>


\* ------------------------------------------------ PdfRenderer (the platform)
\* PdfRenderer.close(): throwIfClosed, throwIfPageOpened, doClose.
RendererCloseThrows(hs, r) == hs[r].closed \/ hs[r].curPage # NoPage

RendererClose(hs, r) ==
    IF RendererCloseThrows(hs, r) THEN hs ELSE [hs EXCEPT ![r].closed = TRUE]

\* PdfRenderer.openPage(index): throwIfClosed, throwIfPageOpened,
\* throwIfPageNotInDocument.
OpenPageThrows(hs, r, index) ==
    \/ hs[r].closed
    \/ hs[r].curPage # NoPage
    \/ index < 0
    \/ index >= DocPageCount(hs[r].doc)

\* ------------------------------------------------------------- view helpers
width == viewSize[1]

height == viewSize[2]

Alive == uiPc # "crashed" /\ \A t \in 1..Len(tasks) : tasks[t].pc # "crashed"

Event(type) == [type |-> type, source |-> mSource]

\* A render task holds a page of its renderer open.
PageOpenBy(t) == tasks[t].pc = "opened"

\* RecyclerView.Adapter.notifyDataSetChanged: every holder is invalid until
\* the next layout pass binds it again (bindingAdapterPosition = NO_POSITION).
notifyDataSetChanged(hs) == [h \in DOMAIN hs |-> [hs[h] EXCEPT !.pos = NoPosition]]

\* getPageHeight of ZoomablePdfScrollView.
getPageHeight ==
    IF mPdfPageWidth <= 0 \/ mPdfPageHeight <= 0 THEN height
    ELSE (width * mPdfPageHeight) \div mPdfPageWidth

\* The height renderPage computes for the bitmap of a page.
RenderPageHeight ==
    IF viewKind = "scroll" THEN getPageHeight
    ELSE IF mPdfPageWidth <= 0 THEN 0
    ELSE (width * mPdfPageHeight) \div mPdfPageWidth

coerceIn(v, lo, hi) == IF v < lo THEN lo ELSE IF v > hi THEN hi ELSE v

coerceAtLeast(v, lo) == IF v < lo THEN lo ELSE v

\* ZoomablePageView: no animator is running.
NoAnimator == [startScale |-> 0, targetScale |-> 0, fraction |-> 100]

\* A ZoomablePageView as onCreateViewHolder makes it.
NewPageView ==
    [scale |-> 100, minZoom |-> 100, maxZoom |-> 300, zoomAnimator |-> NoAnimator]

\* ZoomablePageView.isZoomed.
isZoomed(v) == v.scale > v.minZoom + 1

\* ZoomablePageView.resetState followed by the minZoom and maxZoom
\* assignments of onBindViewHolder.
resetState(v) ==
    [scale |-> v.minZoom, minZoom |-> mMinScale, maxZoom |-> mMaxScale,
     zoomAnimator |-> NoAnimator]

\* ZoomablePageView.setImage: the zoom is reset, a running animator is not
\* cancelled and onZoomStateChange is not invoked.
setImage(v) == [v EXCEPT !.scale = v.minZoom]

\* ZoomablePageView.animateZoomTo.
animateZoomTo(v, targetScale) ==
    [v EXCEPT !.zoomAnimator =
        [startScale |-> v.scale, targetScale |-> targetScale, fraction |-> 0]]

\* A renderPage that does not return when mPdfRenderer is null.
RenderLaunchesWithoutRenderer ==
    /\ width > 0
    /\ viewKind = "paging" => (mPdfPageWidth > 0 /\ mPdfPageHeight > 0)
    /\ RenderPageHeight > 0
    /\ ~scopeCancelled

\* PdfPageAdapter.renderPage: the conditions under which a coroutine is launched.
RenderLaunches ==
    /\ mPdfRenderer # 0
    /\ width > 0
    /\ viewKind = "paging" => (mPdfPageWidth > 0 /\ mPdfPageHeight > 0)
    /\ RenderPageHeight > 0
    /\ ~scopeCancelled

\* History: the page cache was invalidated after these renders were scheduled.
MarkStale(ts) == [t \in DOMAIN ts |-> [ts[t] EXCEPT !.stale = TRUE]]

\* A coroutine that has ended: its captured values are gone.
Ended(task, pc) ==
    [pc |-> pc, renderer |-> 0, pageIndex |-> NoPage, holder |-> 0, viewWidth |-> 0,
     pageHeight |-> 0, stale |-> task.stale, bitmap |-> NoBitmap]

NewTask(pageIndex, holder) ==
    [pc |-> "queued", renderer |-> mPdfRenderer, pageIndex |-> pageIndex,
     holder |-> holder, viewWidth |-> width, pageHeight |-> RenderPageHeight,
     stale |-> FALSE, bitmap |-> NoBitmap]

\* ------------------------------------------------------------------- Init
InitDrawIdle ==
    /\ dSource = ""
    /\ dPage = 0
    /\ dSize = <<0, 0>>
    /\ mDirty = FALSE
    /\ mRenderGeneration = 0
    /\ mBitmaps = [i \in 1..SLICES |-> [of |-> NoBitmap, y |-> 0, h |-> 1]]
    /\ mViewRects = [i \in 1..SLICES |-> [top |-> 0, bottom |-> 0]]
    /\ dTasks = <<>>
    /\ dPosted = 0
    /\ dEvents = <<>>
    /\ nDrawUpdates = 0

InitCacheDriverIdle ==
    /\ lastPut = [op |-> 0, key |-> NoPage, value |-> NoBitmap, evicted |-> FALSE,
                  dropped |-> 0]
    /\ lastGet = [op |-> 0, key |-> NoPage, value |-> NoBitmap]
    /\ nCacheOps = 0

InitGestureIdle ==
    /\ pageZoom = [h \in 1..NumHolders |-> NewPageView]
    /\ isUserInputEnabled = TRUE
    /\ mCurrentPage = 0
    /\ currentItem = 0
    /\ scrollY = 0
    /\ nPageChanges = 0
    /\ nScrolls = 0
    /\ mScale = 100
    /\ dMinScale = 100
    /\ dMaxScale = 300
    /\ mOffsetX = 0
    /\ mOffsetY = 0
    /\ mAnnotation = <<>>
    /\ nAnnotationUpdates = 0
    /\ mPdfContentRect = RectF(0, 0, 0, 0)
    /\ mDrawingMode = "view"
    /\ mActiveStroke = <<>>
    /\ mStrokes = <<>>
    /\ drawingEvents = <<>>
    /\ pointerDown = FALSE
    /\ nTouches = 0
    /\ nModeChanges = 0

InitView ==
    /\ mSource = ""
    /\ mPdfRenderer = 0
    /\ mFileDescriptor = 0
    /\ mPdfPageWidth = 0
    /\ mPdfPageHeight = 0
    /\ mActualPageCount = 0
    /\ mImageCache = <<>>
    /\ mPreviousWidth = 0
    /\ mNeedsInitialRender = FALSE
    /\ viewSize = <<0, 0>>
    /\ attached = TRUE
    /\ scopeCancelled = FALSE
    /\ holders = [h \in 1..NumHolders |-> [pos |-> NoPosition, image |-> NoBitmap]]
    /\ tasks = <<>>
    /\ handles = <<>>
    /\ fds = <<>>
    /\ pdfMutex = 0
    /\ uiPc = "idle"
    /\ events = <<>>
    /\ nReloads = 0

Init ==
    /\ viewKind \in {"paging", "scroll"}
    /\ InitView
    /\ InitDrawIdle
    /\ InitCacheDriverIdle
    /\ InitGestureIdle

\* ------------------------------------------------------ UI thread: handlers
\* setSource. PagingPdfView defers the load until the view has a size;
\* ZoomablePdfScrollView reloads at once.  reloadPdf returns at its first
\* line for an empty source; otherwise it goes on to closePdf (UiReloadPdf).
setSource(s) ==
    /\ Alive /\ uiPc = "idle"
    /\ nReloads < MaxReloads
    /\ mSource # s
    /\ mSource' = s
    /\ IF viewKind = "paging" /\ ~(width > 0 /\ height > 0)
       THEN /\ mNeedsInitialRender' = TRUE
            /\ uiPc' = uiPc
       ELSE /\ mNeedsInitialRender' = mNeedsInitialRender
            /\ uiPc' = IF s = "" THEN "idle" ELSE "reload"
    /\ UNCHANGED <<viewKind, mPdfRenderer, mFileDescriptor, mPdfPageWidth,
                   mPdfPageHeight, mActualPageCount, mImageCache, mPreviousWidth,
                   viewSize, attached, scopeCancelled, holders, tasks, handles,
                   fds, pdfMutex, events>>
    /\ nReloads' = nReloads + 1
    /\ UNCHANGED <<drawVars, cacheDriverVars, gestureVars>>

\* closePdf can run now: PagingPdfView takes pdfMutex (the UI thread blocks
\* until it is free), ZoomablePdfScrollView does not take it.
closePdfCanRun == viewKind = "paging" => pdfMutex = 0

\* ZoomablePdfScrollView.closePdf calls close() outside any try: the
\* IllegalStateException of a renderer with an open page is not caught.
closePdfFaults ==
    /\ viewKind = "scroll"
    /\ mPdfRenderer # 0
    /\ RendererCloseThrows(handles, mPdfRenderer)

\* closePdf: the renderers after mPdfRenderer?.close().
closePdfHandles ==
    IF mPdfRenderer = 0 THEN handles ELSE RendererClose(handles, mPdfRenderer)

\* A closePdf that closes every descriptor the view ever opened.
closePdfFdsAgain == [f \in DOMAIN fds |-> [fds[f] EXCEPT !.closeCalls = @ + 1]]

\* closePdf: the descriptors after mFileDescriptor?.close().
closePdfFds ==
    IF mFileDescriptor = 0 THEN fds
    ELSE [fds EXCEPT ![mFileDescriptor].closeCalls = @ + 1]

\* reloadPdf from closePdf on.
UiReloadPdf ==
    /\ Alive /\ uiPc = "reload"
    /\ closePdfCanRun
    /\ IF closePdfFaults
       THEN /\ uiPc' = "crashed"
            /\ UNCHANGED <<mPdfRenderer, mFileDescriptor, mPdfPageWidth,
                           mPdfPageHeight, mActualPageCount, mImageCache,
                           holders, handles, fds, events, tasks>>
       ELSE /\ uiPc' = "idle"
            /\ mImageCache' = evictAll(mImageCache)
            /\ tasks' = MarkStale(tasks)
            /\ IF FileExists(mSource) /\ ~ValidPdf(mSource)
               THEN /\ fds' = Append(closePdfFds, [closeCalls |-> 0])
                    /\ mFileDescriptor' = Len(fds) + 1
                    /\ handles' = closePdfHandles
                    /\ mPdfRenderer' = 0
                    /\ events' = Append(events, Event("onPdfError"))
                    /\ UNCHANGED <<mPdfPageWidth, mPdfPageHeight,
                                   mActualPageCount, holders>>
               ELSE IF FileExists(mSource)
               THEN /\ fds' = Append(closePdfFds, [closeCalls |-> 0])
                    /\ mFileDescriptor' = Len(fds) + 1
                    /\ handles' = Append(closePdfHandles,
                                         [doc |-> mSource, closed |-> FALSE,
                                          curPage |-> NoPage])
                    /\ mPdfRenderer' = Len(handles) + 1
                    /\ mPdfPageWidth' = DocPageWidth(mSource)
                    /\ mPdfPageHeight' = DocPageHeight(mSource)
                    /\ mActualPageCount' = DocPageCount(mSource)
                    /\ holders' = notifyDataSetChanged(holders)
                    /\ events' = Append(events, Event("onPdfLoadComplete"))
               ELSE /\ fds' = closePdfFds
                    /\ mFileDescriptor' = 0
                    /\ handles' = closePdfHandles
                    /\ mPdfRenderer' = 0
                    /\ events' = Append(events, Event("onPdfError"))
                    /\ UNCHANGED <<mPdfPageWidth, mPdfPageHeight,
                                   mActualPageCount, holders>>
    /\ UNCHANGED <<viewKind, mSource, mPreviousWidth, mNeedsInitialRender,
                   viewSize, attached, scopeCancelled, pdfMutex, nReloads>>
    /\ UNCHANGED <<drawVars, cacheDriverVars, gestureVars>>

\* onSizeChanged(w, h).
onSizeChanged(sz) ==
    /\ Alive /\ uiPc = "idle"
    /\ sz # viewSize
    /\ viewSize' = sz
    /\ IF viewKind = "paging" /\ (sz[1] <= 0 \/ sz[2] <= 0)
       THEN UNCHANGED <<mNeedsInitialRender, uiPc, mPreviousWidth, mImageCache,
                        holders, tasks>>
       ELSE IF viewKind = "paging" /\ mNeedsInitialRender /\ mSource # ""
       THEN /\ mNeedsInitialRender' = FALSE
            /\ uiPc' = "reload"
            /\ mPreviousWidth' = sz[1]
            /\ UNCHANGED <<mImageCache, holders, tasks>>
       ELSE /\ mPreviousWidth' = sz[1]
            /\ IF sz[1] # mPreviousWidth /\ mPreviousWidth > 0 /\ mActualPageCount > 0
               THEN /\ mImageCache' = evictAll(mImageCache)
                    /\ holders' = notifyDataSetChanged(holders)
                    /\ tasks' = MarkStale(tasks)
               ELSE UNCHANGED <<mImageCache, holders, tasks>>
            /\ UNCHANGED <<mNeedsInitialRender, uiPc>>
    /\ UNCHANGED <<viewKind, mSource, mPdfRenderer, mFileDescriptor, mPdfPageWidth,
                   mPdfPageHeight, mActualPageCount, attached, scopeCancelled,
                   handles, fds, pdfMutex, events, nReloads>>
    /\ UNCHANGED <<drawVars, cacheDriverVars, gestureVars>>


\* onBindViewHolder(holder, position), called by the RecyclerView for a
\* position no other holder is bound to, and the renderPage it calls.
onBindViewHolder(h, position) ==
    /\ Alive /\ uiPc = "idle" /\ attached
    /\ position \in 0..(mActualPageCount - 1)
    /\ \A g \in DOMAIN holders : holders[g].pos # position
    /\ IF viewKind = "paging" /\ (width <= 0 \/ mPdfPageWidth <= 0 \/ mPdfPageHeight <= 0)
       THEN /\ holders' = [holders EXCEPT ![h].pos = position]
            /\ UNCHANGED <<mImageCache, tasks, pageZoom>>
       ELSE LET cached == LruGet(mImageCache, position) IN
            /\ mImageCache' = LruTouch(mImageCache, position)
            /\ holders' = [holders EXCEPT ![h] = [pos |-> position, image |-> cached]]
            /\ pageZoom' = IF viewKind = "paging"
                           THEN [pageZoom EXCEPT ![h] = setImage(resetState(@))]
                           ELSE pageZoom
            /\ IF cached = NoBitmap /\ RenderLaunches
               THEN /\ Len(tasks) < MaxTasks
                    /\ tasks' = Append(tasks, NewTask(position, h))
               ELSE tasks' = tasks
    /\ UNCHANGED <<viewKind, mSource, mPdfRenderer, mFileDescriptor, mPdfPageWidth,
                   mPdfPageHeight, mActualPageCount, mPreviousWidth,
                   mNeedsInitialRender, viewSize, attached, scopeCancelled,
                   handles, fds, pdfMutex, uiPc, events, nReloads>>
    /\ UNCHANGED <<drawVars, cacheDriverVars, isUserInputEnabled, pagerVars, drawZoomVars,
                   inkVars>>

\* PagingPdfView.setPdfBackgroundColor -> applyBackgroundColor.
setPdfBackgroundColor ==
    /\ Alive /\ uiPc = "idle"
    /\ viewKind = "paging"
    /\ \E h \in DOMAIN holders : holders[h].pos # NoPosition
    /\ holders' = notifyDataSetChanged(holders)
    /\ UNCHANGED <<viewKind, mSource, mPdfRenderer, mFileDescriptor, mPdfPageWidth,
                   mPdfPageHeight, mActualPageCount, mImageCache, mPreviousWidth,
                   mNeedsInitialRender, viewSize, attached, scopeCancelled, tasks,
                   handles, fds, pdfMutex, uiPc, events, nReloads>>
    /\ UNCHANGED <<drawVars, cacheDriverVars, gestureVars>>

\* onDetachedFromWindow up to closePdf: renderScope.cancel().
onDetachedFromWindow ==
    /\ Alive /\ uiPc = "idle" /\ attached
    /\ attached' = FALSE
    /\ scopeCancelled' = TRUE
    /\ uiPc' = "detach"
    /\ UNCHANGED <<viewKind, mSource, mPdfRenderer, mFileDescriptor, mPdfPageWidth,
                   mPdfPageHeight, mActualPageCount, mImageCache, mPreviousWidth,
                   mNeedsInitialRender, viewSize, holders, tasks, handles, fds,
                   pdfMutex, events, nReloads>>
    /\ UNCHANGED <<drawVars, cacheDriverVars, gestureVars>>

\* onDetachedFromWindow from closePdf on: closePdf, mImageCache.evictAll().
UiDetachClose ==
    /\ Alive /\ uiPc = "detach"
    /\ closePdfCanRun
    /\ IF closePdfFaults
       THEN /\ uiPc' = "crashed"
            /\ UNCHANGED <<mPdfRenderer, mFileDescriptor, mImageCache, handles, fds>>
       ELSE /\ uiPc' = "idle"
            /\ handles' = closePdfHandles
            /\ fds' = closePdfFds
            /\ mPdfRenderer' = 0
            /\ mFileDescriptor' = 0
            /\ mImageCache' = evictAll(mImageCache)
    /\ UNCHANGED <<viewKind, mSource, mPdfPageWidth, mPdfPageHeight,
                   mActualPageCount, mPreviousWidth, mNeedsInitialRender, viewSize,
                   attached, scopeCancelled, holders, tasks, pdfMutex, events,
                   nReloads>>
    /\ UNCHANGED <<drawVars, cacheDriverVars, gestureVars>>

\* ------------------------------------------------ render task (coroutine)
taskFrame == <<viewKind, mSource, mPdfRenderer, mFileDescriptor, mPdfPageWidth,
               mPdfPageHeight, mActualPageCount, mPreviousWidth,
               mNeedsInitialRender, viewSize, attached, scopeCancelled, fds, uiPc,
               events, nReloads>>

\* A withLock that never waits.
LockAlwaysAvailable(t) == TRUE

\* pdfMutex.withLock: the task's thread gets the lock.
LockAvailable(t) == pdfMutex = 0

TaskAcquire(t) ==
    /\ Alive
    /\ t \in 1..Len(tasks) /\ tasks[t].pc = "queued"
    /\ LockAvailable(t)
    /\ pdfMutex' = t
    /\ tasks' = [tasks EXCEPT ![t].pc = "locked"]
    /\ UNCHANGED <<taskFrame, mImageCache, holders, handles>>
    /\ UNCHANGED <<drawVars, cacheDriverVars, gestureVars>>

\* An openPage whose exception leaves the lock held.
TaskOpenPageKeepsLock(t) ==
    /\ Alive
    /\ t \in 1..Len(tasks) /\ tasks[t].pc = "locked"
    /\ IF OpenPageThrows(handles, tasks[t].renderer, tasks[t].pageIndex)
       THEN /\ tasks' = [tasks EXCEPT ![t] = Ended(@, "failed")]
            /\ handles' = handles
       ELSE /\ tasks' = [tasks EXCEPT ![t].pc = "opened"]
            /\ handles' = [handles EXCEPT ![tasks[t].renderer].curPage = tasks[t].pageIndex]
    /\ pdfMutex' = pdfMutex
    /\ UNCHANGED <<taskFrame, mImageCache, holders>>
    /\ UNCHANGED <<drawVars, cacheDriverVars, gestureVars>>

\* renderer.openPage(pageIndex) inside try; an exception gives null and
\* withLock releases the lock.
TaskOpenPage(t) ==
    /\ Alive
    /\ t \in 1..Len(tasks) /\ tasks[t].pc = "locked"
    /\ IF OpenPageThrows(handles, tasks[t].renderer, tasks[t].pageIndex)
       THEN /\ tasks' = [tasks EXCEPT ![t] = Ended(@, "failed")]
            /\ pdfMutex' = 0
            /\ handles' = handles
       ELSE /\ tasks' = [tasks EXCEPT ![t].pc = "opened"]
            /\ handles' = [handles EXCEPT ![tasks[t].renderer].curPage = tasks[t].pageIndex]
            /\ pdfMutex' = pdfMutex
    /\ UNCHANGED <<taskFrame, mImageCache, holders>>
    /\ UNCHANGED <<drawVars, cacheDriverVars, gestureVars>>

\* What catch (e: Exception) makes of the outcome of createBitmap/render:
\* an Exception becomes null, an OutOfMemoryError is not an Exception.
CaughtAs(outcome) == IF outcome = "exception" THEN "failed" ELSE "crashed"

\* Bitmap.createBitmap, page.render, page.close, and the end of withLock.
TaskRender(t, outcome) ==
    /\ Alive
    /\ t \in 1..Len(tasks) /\ tasks[t].pc = "opened"
    /\ LET r == tasks[t].renderer IN
       IF outcome = "ok"
       THEN /\ tasks' = [tasks EXCEPT ![t].pc = "rendered",
                                      ![t].bitmap = Bitmap(handles[r].doc, tasks[t].pageIndex,
                                                           tasks[t].viewWidth, tasks[t].pageHeight,
                                                           t)]
            /\ handles' = [handles EXCEPT ![r].curPage = NoPage]
       ELSE /\ tasks' = [tasks EXCEPT ![t] = Ended(@, CaughtAs(outcome))]
            /\ handles' = handles
    /\ pdfMutex' = 0
    /\ UNCHANGED <<taskFrame, mImageCache, holders>>
    /\ UNCHANGED <<drawVars, cacheDriverVars, gestureVars>>

\* mImageCache.put(pageIndex, it), on the IO thread.
TaskPut(t) ==
    /\ Alive
    /\ t \in 1..Len(tasks) /\ tasks[t].pc = "rendered"
    /\ mImageCache' = LruPut(mImageCache, tasks[t].pageIndex, tasks[t].bitmap)
    /\ tasks' = [tasks EXCEPT ![t].pc = "posted"]
    /\ UNCHANGED <<taskFrame, holders, handles, pdfMutex>>
    /\ UNCHANGED <<drawVars, cacheDriverVars, gestureVars>>

\* The condition under which the finished render is shown by its holder.
DeliverTo(t) == holders[tasks[t].holder].pos = tasks[t].pageIndex

\* withContext(Dispatchers.Main) { ... }, on the UI thread.
TaskDeliver(t) ==
    /\ Alive /\ uiPc = "idle"
    /\ t \in 1..Len(tasks) /\ tasks[t].pc = "posted"
    /\ ~scopeCancelled
    /\ holders' = IF DeliverTo(t)
                  THEN [holders EXCEPT ![tasks[t].holder].image = tasks[t].bitmap]
                  ELSE holders
    /\ pageZoom' = IF DeliverTo(t) /\ viewKind = "paging"
                   THEN [pageZoom EXCEPT ![tasks[t].holder] = setImage(@)]
                   ELSE pageZoom
    /\ tasks' = [tasks EXCEPT ![t] = Ended(@, "done")]
    /\ UNCHANGED <<taskFrame, mImageCache, handles, pdfMutex>>
    /\ UNCHANGED <<drawVars, cacheDriverVars, isUserInputEnabled, pagerVars, drawZoomVars,
                   inkVars>>

\* A cancelled scope: a coroutine that has not started never starts, and
\* withContext throws CancellationException instead of switching threads.
TaskCancelled(t) ==
    /\ Alive
    /\ t \in 1..Len(tasks) /\ tasks[t].pc \in {"queued", "posted"}
    /\ scopeCancelled
    /\ tasks' = [tasks EXCEPT ![t] = Ended(@, "cancelled")]
    /\ UNCHANGED <<taskFrame, mImageCache, holders, handles, pdfMutex>>
    /\ UNCHANGED <<drawVars, cacheDriverVars, gestureVars>>

\* ------------------------------------------------------------------- Spec
Next ==
    \/ \E s \in Sources : setSource(s)
    \/ UiReloadPdf
    \/ \E sz \in Sizes : onSizeChanged(sz)
    \/ \E h \in 1..NumHolders, p \in 0..1 : onBindViewHolder(h, p)
    \/ setPdfBackgroundColor
    \/ onDetachedFromWindow
    \/ UiDetachClose
    \/ \E t \in 1..MaxTasks : TaskAcquire(t)
    \/ \E t \in 1..MaxTasks : TaskOpenPage(t)
    \/ \E t \in 1..MaxTasks, o \in RenderOutcomes : TaskRender(t, o)
    \/ \E t \in 1..MaxTasks : TaskPut(t)
    \/ \E t \in 1..MaxTasks : TaskDeliver(t)
    \/ \E t \in 1..MaxTasks : TaskCancelled(t)

Spec == Init /\ [][Next]_vars

\* The document session: loads that succeed or fail, layout, bind and render.
NextSession ==
    \/ \E s \in SessionSources : setSource(s)
    \/ UiReloadPdf
    \/ \E sz \in RenderSizes : onSizeChanged(sz)
    \/ \E h \in 1..NumHolders, p \in 0..1 : onBindViewHolder(h, p)
    \/ \E t \in 1..MaxTasks : TaskAcquire(t)
    \/ \E t \in 1..MaxTasks : TaskOpenPage(t)
    \/ \E t \in 1..MaxTasks, o \in RenderOutcomes : TaskRender(t, o)
    \/ \E t \in 1..MaxTasks : TaskPut(t)
    \/ \E t \in 1..MaxTasks : TaskDeliver(t)

SpecSession == Init /\ [][NextSession]_vars

\* Opening and closing the document: loads that succeed or fail, detach, and
\* the renders that can hold the handle or a page of it when it is closed.
NextClose ==
    \/ \E s \in SessionSources : setSource(s)
    \/ UiReloadPdf
    \/ \E sz \in RenderSizes : onSizeChanged(sz)
    \/ \E h \in 1..NumHolders, p \in 0..1 : onBindViewHolder(h, p)
    \/ onDetachedFromWindow
    \/ UiDetachClose
    \/ \E t \in 1..MaxTasks : TaskAcquire(t)
    \/ \E t \in 1..MaxTasks : TaskOpenPage(t)
    \/ \E t \in 1..MaxTasks, o \in RenderOutcomes : TaskRender(t, o)
    \/ \E t \in 1..MaxTasks : TaskCancelled(t)

SpecClose == Init /\ [][NextClose]_vars

\* Load, layout, bind and render: the view is laid out once and stays attached.
NextRender ==
    \/ \E s \in {"A", "B"} : setSource(s)
    \/ UiReloadPdf
    \/ \E sz \in RenderSizes : onSizeChanged(sz)
    \/ \E h \in 1..NumHolders, p \in 0..1 : onBindViewHolder(h, p)
    \/ \E t \in 1..MaxTasks : TaskAcquire(t)
    \/ \E t \in 1..MaxTasks : TaskOpenPage(t)
    \/ \E t \in 1..MaxTasks, o \in RenderOutcomes : TaskRender(t, o)
    \/ \E t \in 1..MaxTasks : TaskPut(t)
    \/ \E t \in 1..MaxTasks : TaskDeliver(t)

SpecRender == Init /\ [][NextRender]_vars

\* ------------------------------------------ PagingPdfView: zoom of a page
zoomFrame == <<pagingVars, mImageCache, pdfMutex, drawVars, cacheDriverVars,
               drawZoomVars, inkVars>>

Min(a, b) == IF a < b THEN a ELSE b

Max(a, b) == IF a > b THEN a ELSE b

\* The page view that receives the touch events: the holder of currentItem.
Shown(h) == holders[h].pos # NoPosition /\ holders[h].pos = currentItem

\* scaleDetector.onScale of the shown page, with scaleFactor f.
PageOnScale(h, f) ==
    /\ Alive /\ uiPc = "idle" /\ attached /\ viewKind = "paging"
    /\ Shown(h)
    /\ LET v == pageZoom[h]
           newScale == coerceIn((v.scale * f) \div 100, v.minZoom, v.maxZoom)
       IN  IF newScale # v.scale
           THEN /\ pageZoom' = [pageZoom EXCEPT ![h].scale = newScale]
                /\ isUserInputEnabled' = ~isZoomed(pageZoom'[h])
           ELSE UNCHANGED zoomVars
    /\ UNCHANGED <<zoomFrame, pagerVars>>

\* gestureDetector.onDoubleTap in the middle zone of the shown page.
PageOnDoubleTap(h) ==
    /\ Alive /\ uiPc = "idle" /\ attached /\ viewKind = "paging"
    /\ Shown(h)
    /\ pageZoom' = [pageZoom EXCEPT ![h] =
                        animateZoomTo(@, IF isZoomed(@) THEN @.minZoom ELSE @.maxZoom)]
    /\ UNCHANGED <<isUserInputEnabled, zoomFrame, pagerVars>>

\* One frame of the ValueAnimator of animateZoomTo, at fraction fr.
ZoomAnimatorUpdate(h, fr) ==
    /\ Alive /\ uiPc = "idle" /\ viewKind = "paging"
    /\ pageZoom[h].zoomAnimator.fraction < fr
    /\ LET a == pageZoom[h].zoomAnimator IN
       pageZoom' = [pageZoom EXCEPT
           ![h].scale = a.startScale + ((a.targetScale - a.startScale) * fr) \div 100,
           ![h].zoomAnimator.fraction = fr]
    /\ isUserInputEnabled' = ~isZoomed(pageZoom'[h])
    /\ UNCHANGED <<zoomFrame, pagerVars>>

\* PagingPdfView.resetZoom: the holder of mCurrentPage, if there is one.
resetZoom ==
    /\ Alive /\ uiPc = "idle" /\ attached /\ viewKind = "paging"
    /\ pageZoom' = [h \in DOMAIN pageZoom |->
                        IF holders[h].pos = mCurrentPage
                        THEN animateZoomTo(pageZoom[h], pageZoom[h].minZoom)
                        ELSE pageZoom[h]]
    /\ UNCHANGED <<isUserInputEnabled, zoomFrame, pagerVars>>

\* ----------------------------------------------------------- current page
pagerFrame == <<pagingVars, mImageCache, pdfMutex, drawVars, cacheDriverVars,
                zoomVars, drawZoomVars, inkVars>>

\* OnPageChangeCallback.onPageSelected of PagingPdfView.
onPageSelected(position) ==
    IF position # mCurrentPage /\ position >= 0 /\ position < mActualPageCount
    THEN /\ mCurrentPage' = position
         /\ nPageChanges' = nPageChanges + 1
    ELSE UNCHANGED <<mCurrentPage, nPageChanges>>

\* A swipe to a neighbouring page: ViewPager2 takes it while user input is
\* enabled and reports the page it settles on.
UserSwipe(position) ==
    /\ Alive /\ uiPc = "idle" /\ attached /\ viewKind = "paging"
    /\ nScrolls < MaxScrolls
    /\ isUserInputEnabled
    /\ position \in {currentItem - 1, currentItem + 1}
    /\ position \in 0..(mActualPageCount - 1)
    /\ nScrolls' = nScrolls + 1
    /\ currentItem' = position
    /\ onPageSelected(position)
    /\ UNCHANGED <<scrollY, pagerFrame>>

\* The rows of ZoomablePdfScrollView are laid out: every row is
\* getPageHeight tall, without spacing.
LaidOut == viewKind = "scroll" /\ mActualPageCount > 0 /\ getPageHeight > 0 /\ height > 0

\* The largest scroll offset of mRecyclerView.
MaxScrollY == Max(0, mActualPageCount * getPageHeight - height)

\* LinearLayoutManager.findFirstVisibleItemPosition / findLastVisibleItemPosition
\* at scroll offset y.
findFirstVisibleItemPosition(y) == y \div getPageHeight

findLastVisibleItemPosition(y) ==
    Min(mActualPageCount - 1, (y + height - 1) \div getPageHeight)

\* ZoomablePdfScrollView.updateCurrentPage, at scroll offset y.
updateCurrentPage(y) ==
    IF ~LaidOut
    THEN UNCHANGED <<mCurrentPage, nPageChanges>>
    ELSE LET centerPosition == (findFirstVisibleItemPosition(y)
                                + findLastVisibleItemPosition(y)) \div 2
             newPage == coerceIn(centerPosition, 0, mActualPageCount - 1)
         IN  IF newPage # mCurrentPage
             THEN /\ mCurrentPage' = newPage
                  /\ nPageChanges' = nPageChanges + 1
             ELSE UNCHANGED <<mCurrentPage, nPageChanges>>

\* Where mRecyclerView comes to rest: scrollToPositionWithOffset(page, 0)
\* puts the top of the row at the top of the view, smoothScrollToPosition
\* scrolls the least that makes the row visible; neither scrolls past the end.
ScrollTarget(page, animated) ==
    LET top == page * getPageHeight
        bottom == top + getPageHeight
        y == Min(scrollY, MaxScrollY)
        to == IF ~animated THEN top
              ELSE IF top < y THEN top
              ELSE IF bottom > y + height THEN bottom - height
              ELSE y
    IN  coerceIn(to, 0, MaxScrollY)

\* scrollToPage(page, animated) of PagingPdfView and ZoomablePdfScrollView,
\* sent to a view that has been laid out, with the callback the pager or the
\* list makes when it has moved.
scrollToPage(page, animated) ==
    /\ Alive /\ uiPc = "idle" /\ attached
    /\ width > 0 /\ height > 0
    /\ nScrolls < MaxScrolls
    /\ nScrolls' = nScrolls + 1
    /\ IF page < 0 \/ page >= mActualPageCount
       THEN UNCHANGED <<mCurrentPage, currentItem, scrollY, nPageChanges>>
       ELSE IF viewKind = "paging"
       THEN /\ currentItem' = page
            /\ IF page # currentItem
               THEN onPageSelected(page)
               ELSE UNCHANGED <<mCurrentPage, nPageChanges>>
            /\ scrollY' = scrollY
       ELSE IF LaidOut
       THEN /\ scrollY' = ScrollTarget(page, animated)
            /\ updateCurrentPage(scrollY')
            /\ currentItem' = currentItem
       ELSE UNCHANGED <<mCurrentPage, currentItem, scrollY, nPageChanges>>
    /\ UNCHANGED pagerFrame

\* OnScrollListener.onScrolled of ZoomablePdfScrollView: the user has
\* dragged the list to offset y.
onScrolled(y) ==
    /\ Alive /\ uiPc = "idle" /\ attached
    /\ LaidOut
    /\ nScrolls < MaxScrolls
    /\ y \in 0..MaxScrollY /\ y # scrollY
    /\ nScrolls' = nScrolls + 1
    /\ scrollY' = y
    /\ updateCurrentPage(y)
    /\ UNCHANGED <<currentItem, pagerFrame>>

InitPaging ==
    /\ viewKind = "paging"
    /\ InitView
    /\ InitDrawIdle
    /\ InitCacheDriverIdle
    /\ InitGestureIdle

\* A document shown by PagingPdfView, zoomed and swiped by the user.
NextZoom ==
    \/ setSource("A")
    \/ UiReloadPdf
    \/ \E sz \in RenderSizes : onSizeChanged(sz)
    \/ \E h \in 1..NumHolders, p \in 0..1 : onBindViewHolder(h, p)
    \/ \E t \in 1..MaxTasks : TaskAcquire(t)
    \/ \E t \in 1..MaxTasks : TaskOpenPage(t)
    \/ \E t \in 1..MaxTasks, o \in RenderOutcomes : TaskRender(t, o)
    \/ \E t \in 1..MaxTasks : TaskPut(t)
    \/ \E t \in 1..MaxTasks : TaskDeliver(t)
    \/ \E h \in 1..NumHolders, f \in ScaleFactors : PageOnScale(h, f)
    \/ \E h \in 1..NumHolders : PageOnDoubleTap(h)
    \/ \E h \in 1..NumHolders, fr \in AnimFractions : ZoomAnimatorUpdate(h, fr)
    \/ resetZoom
    \/ \E p \in 0..1 : UserSwipe(p)

SpecZoom == InitPaging /\ [][NextZoom]_vars

\* A document shown by either view, its pages visited by scrollToPage, by
\* swipes and by scrolling.
NextPager ==
    \/ setSource("A")
    \/ UiReloadPdf
    \/ \E sz \in PagerSizes : onSizeChanged(sz)
    \/ \E p \in ScrollArgs, a \in BOOLEAN : scrollToPage(p, a)
    \/ \E p \in 0..1 : UserSwipe(p)
    \/ \E y \in {0, 8, 16} : onScrolled(y)

SpecPager == Init /\ [][NextPager]_vars

\* --------------------------------------------------------- DrawablePdfView
drawFrame == <<pagingVars, mImageCache, cacheDriverVars, gestureVars, mViewRects>>

DrawAlive == \A t \in 1..Len(dTasks) : dTasks[t].pc # "crashed"

NewDrawTask(generation) ==
    [pc |-> "queued", generation |-> generation, source |-> "", bitmap |-> NoBitmap,
     ink |-> 0]

\* A coroutine of renderPdf that has ended.
DrawEnded(pc) ==
    [pc |-> pc, generation |-> 0, source |-> "", bitmap |-> NoBitmap, ink |-> 0]

\* renderPdf up to launch, for the view state the caller leaves behind.
renderPdf(size, source, dirty) ==
    IF size[2] < 1 \/ size[1] < 1 \/ source = "" \/ ~dirty
    THEN /\ mDirty' = dirty
         /\ UNCHANGED <<mRenderGeneration, dTasks>>
    ELSE /\ Len(dTasks) < MaxDrawTasks
         /\ mDirty' = FALSE
         /\ mRenderGeneration' = mRenderGeneration + 1
         /\ dTasks' = Append(dTasks, NewDrawTask(mRenderGeneration + 1))

\* A prop update of React: setSource, then onAfterUpdateTransaction -> renderPdf.
DrawableSetSource(s) ==
    /\ DrawAlive
    /\ nDrawUpdates < MaxDrawUpdates
    /\ s # dSource
    /\ nDrawUpdates' = nDrawUpdates + 1
    /\ dSource' = s
    /\ renderPdf(dSize, s, TRUE)
    /\ UNCHANGED <<dPage, dSize, mBitmaps, dPosted, dEvents, pdfMutex, drawFrame>>

\* A prop update of React: setPage, then onAfterUpdateTransaction -> renderPdf.
DrawableSetPage(p) ==
    /\ DrawAlive
    /\ nDrawUpdates < MaxDrawUpdates
    /\ p # dPage
    /\ nDrawUpdates' = nDrawUpdates + 1
    /\ dPage' = p
    /\ mScale' = 100
    /\ renderPdf(dSize, dSource, TRUE)
    /\ mOffsetX' = 0
    /\ mOffsetY' = 0
    /\ UNCHANGED <<dSource, dSize, mBitmaps, mViewRects, dPosted, dEvents, pdfMutex,
                   pagingVars, mImageCache, cacheDriverVars, zoomVars, pagerVars,
                   dMinScale, dMaxScale, inkVars>>

\* A prop update of React: setAnnotation(source, file), then
\* onAfterUpdateTransaction -> renderPdf.
DrawableSetAnnotation(a) ==
    /\ DrawAlive
    /\ nAnnotationUpdates < MaxAnnotationUpdates
    /\ nAnnotationUpdates' = nAnnotationUpdates + 1
    /\ IF a.source = "empty"
       THEN /\ mAnnotation' = <<>>
            /\ dEvents' = dEvents
            /\ renderPdf(dSize, dSource, mDirty \/ mAnnotation # <<>>)
       ELSE IF a.source = "malformed"
       THEN /\ mAnnotation' = mAnnotation
            /\ dEvents' = Append(dEvents, "onPdfError")
            /\ renderPdf(dSize, dSource, mDirty)
       ELSE /\ mAnnotation' = a.pages
            /\ dEvents' = dEvents
            /\ renderPdf(dSize, dSource, TRUE)
    /\ UNCHANGED <<dSource, dPage, dSize, mBitmaps, dPosted, nDrawUpdates, pdfMutex,
                   pagingVars, mImageCache, cacheDriverVars, zoomVars, pagerVars,
                   drawZoomVars, mViewRects, mPdfContentRect, mDrawingMode,
                   mActiveStroke, mStrokes, drawingEvents, pointerDown, nTouches,
                   nModeChanges>>

\* The rectangles onSizeChanged cuts a view of height h into.
ViewRects(h) ==
    LET sliceHeight == h \div SLICES IN
    [i \in 1..SLICES |->
        LET remainingHeight == h - (i - 1) * sliceHeight IN
        [top |-> (i - 1) * sliceHeight,
         bottom |-> IF remainingHeight < 2 * sliceHeight
                    THEN (i - 1) * sliceHeight + remainingHeight
                    ELSE i * sliceHeight]]

\* An onSizeChanged that posts renderPdf without marking the view dirty.
DrawableOnSizeChangedNotDirty(sz) ==
    /\ DrawAlive
    /\ nDrawUpdates < MaxDrawUpdates
    /\ sz # dSize
    /\ nDrawUpdates' = nDrawUpdates + 1
    /\ dSize' = sz
    /\ IF sz[2] \div SLICES < 1
       THEN UNCHANGED <<mDirty, dPosted, mViewRects>>
       ELSE /\ mViewRects' = ViewRects(sz[2])
            /\ mDirty' = mDirty
            /\ dPosted' = dPosted + 1
    /\ UNCHANGED <<dSource, dPage, mRenderGeneration, mBitmaps, dTasks, dEvents,
                   pdfMutex, pagingVars, mImageCache, cacheDriverVars, gestureVars>>

\* DrawablePdfView.onSizeChanged: marks the view dirty and posts renderPdf.
DrawableOnSizeChanged(sz) ==
    /\ DrawAlive
    /\ nDrawUpdates < MaxDrawUpdates
    /\ sz # dSize
    /\ nDrawUpdates' = nDrawUpdates + 1
    /\ dSize' = sz
    /\ IF sz[2] \div SLICES < 1
       THEN UNCHANGED <<mDirty, dPosted, mViewRects>>
       ELSE /\ mViewRects' = ViewRects(sz[2])
            /\ mDirty' = TRUE
            /\ dPosted' = dPosted + 1
    /\ UNCHANGED <<dSource, dPage, mRenderGeneration, mBitmaps, dTasks, dEvents,
                   pdfMutex, pagingVars, mImageCache, cacheDriverVars, gestureVars>>

\* The renderPdf posted by onSizeChanged runs.
DrawablePostedRenderPdf ==
    /\ DrawAlive
    /\ dPosted > 0
    /\ dPosted' = dPosted - 1
    /\ renderPdf(dSize, dSource, mDirty)
    /\ UNCHANGED <<dSource, dPage, dSize, mBitmaps, dEvents, nDrawUpdates, pdfMutex,
                   drawFrame>>

\* ParcelFileDescriptor.open(File(mSource)) on the IO thread.
DrawTaskOpenFile(t) ==
    /\ DrawAlive
    /\ t \in 1..Len(dTasks) /\ dTasks[t].pc = "queued"
    /\ IF FileExists(dSource)
       THEN /\ dTasks' = [dTasks EXCEPT ![t].pc = "fileOpen", ![t].source = dSource]
            /\ dEvents' = dEvents
       ELSE /\ dTasks' = [dTasks EXCEPT ![t] = DrawEnded("failed")]
            /\ dEvents' = Append(dEvents, "onPdfError")
    /\ UNCHANGED <<dSource, dPage, dSize, mDirty, mRenderGeneration, mBitmaps, dPosted,
                   nDrawUpdates, pdfMutex, drawFrame>>

\* The body of pdfMutex.withLock: PdfRenderer(fd), openPage(mPage),
\* createBitmap(width, height), render, close.  Only an OutOfMemoryError of
\* createBitmap and the exceptions of PdfRenderer() and openPage are caught.
DrawTaskRender(t, outcome) ==
    /\ DrawAlive
    /\ t \in 1..Len(dTasks) /\ dTasks[t].pc = "fileOpen"
    /\ LockAvailable(t)
    /\ IF dPage < 0 \/ dPage >= DocPageCount(dTasks[t].source)
       THEN /\ dTasks' = [dTasks EXCEPT ![t] = DrawEnded("failed")]
            /\ dEvents' = Append(dEvents, "onPdfError")
       ELSE IF dSize[1] < 1 \/ dSize[2] < 1 \/ outcome = "exception"
       THEN /\ dTasks' = [dTasks EXCEPT ![t] = DrawEnded("crashed")]
            /\ dEvents' = dEvents
       ELSE IF outcome = "oom"
       THEN /\ dTasks' = [dTasks EXCEPT ![t] = DrawEnded("failed")]
            /\ dEvents' = Append(dEvents, "onPdfError")
       ELSE /\ dTasks' = [dTasks EXCEPT ![t].pc = "rendered",
                                        ![t].bitmap = Bitmap(dTasks[t].source, dPage,
                                                             dSize[1], dSize[2], t)]
            /\ dEvents' = dEvents
    /\ UNCHANGED <<dSource, dPage, dSize, mDirty, mRenderGeneration, mBitmaps, dPosted,
                   nDrawUpdates, pdfMutex, drawFrame>>

\* renderAnnotation(bitmap), on Dispatchers.IO outside the lock: the test
\* `mAnnotation.size <= mPage` at its head.  mAnnotation and mPage are the
\* fields of the view, read when the statement runs.
DrawTaskAnnotationCheck(t) ==
    /\ DrawAlive
    /\ t \in 1..Len(dTasks) /\ dTasks[t].pc = "rendered"
    /\ dTasks' = [dTasks EXCEPT ![t].pc = IF Len(mAnnotation) <= dPage THEN "posted"
                                          ELSE "annotating"]
    /\ UNCHANGED <<dSource, dPage, dSize, mDirty, mRenderGeneration, mBitmaps, dPosted,
                   dEvents, nDrawUpdates, pdfMutex, drawFrame>>

\* The strokes of an annotation page that renderAnnotation draws: the ones
\* with at least two points.
DrawnStrokes(page) == {i \in 1..Len(page.strokes) : ~(page.strokes[i] < 2)}

\* The rest of renderAnnotation: mAnnotation[mPage].strokes and
\* mAnnotation[mPage].text are drawn into the bitmap.  mAnnotation[mPage]
\* throws IndexOutOfBoundsException when mPage is not an index of the list
\* the field holds now; nothing in the coroutine catches it.
DrawTaskAnnotate(t) ==
    /\ DrawAlive
    /\ t \in 1..Len(dTasks) /\ dTasks[t].pc = "annotating"
    /\ IF dPage < 0 \/ dPage >= Len(mAnnotation)
       THEN dTasks' = [dTasks EXCEPT ![t] = DrawEnded("crashed")]
       ELSE dTasks' = [dTasks EXCEPT
               ![t].pc = "posted",
               ![t].ink = Cardinality(DrawnStrokes(mAnnotation[dPage + 1]))
                          + mAnnotation[dPage + 1].text]
    /\ UNCHANGED <<dSource, dPage, dSize, mDirty, mRenderGeneration, mBitmaps, dPosted,
                   dEvents, nDrawUpdates, pdfMutex, drawFrame>>

\* computeDestRect(srcWidth, srcHeight) for a view of the given size.
computeDestRect(srcWidth, srcHeight, size) ==
    IF mResizeMode = "contain"
    THEN RectF(0, 0, size[1], size[2])
    ELSE RectF(0, 0, size[1], (size[1] * srcHeight) \div srcWidth)

\* calculatePdfContentRect(srcWidth, srcHeight): the page centred in the
\* destination rectangle at its own aspect ratio.
calculatePdfContentRect(srcWidth, srcHeight, size) ==
    LET destRect == computeDestRect(srcWidth, srcHeight, size)
        destWidth == destRect.right - destRect.left
        destHeight == destRect.bottom - destRect.top
        wider == srcWidth * destHeight > destWidth * srcHeight
        contentWidth == IF wider THEN destWidth
                        ELSE (destHeight * srcWidth) \div srcHeight
        contentHeight == IF wider THEN (destWidth * srcHeight) \div srcWidth
                         ELSE destHeight
        left == destRect.left + (destWidth - contentWidth) \div 2
        top == destRect.top + (destHeight - contentHeight) \div 2
    IN  RectF(left, top, left + contentWidth, top + contentHeight)

\* The strips a rendered bitmap is cut into.
SliceHeight(b) == b.h \div SLICES

Slices(b) ==
    [i \in 1..SLICES |->
        LET remainingHeight == b.h - (i - 1) * SliceHeight(b) IN
        [of |-> b, y |-> (i - 1) * SliceHeight(b),
         h |-> IF remainingHeight < 2 * SliceHeight(b) THEN remainingHeight
               ELSE SliceHeight(b)]]

\* A delivery that does not look at the generation.
GenerationAlwaysCurrent(t) == TRUE

\* The check at the head of withContext(Dispatchers.Main).
GenerationCurrent(t) == dTasks[t].generation = mRenderGeneration

\* withContext(Dispatchers.Main) { ... } of renderPdf, on the UI thread.
DrawTaskDeliver(t) ==
    /\ DrawAlive
    /\ t \in 1..Len(dTasks) /\ dTasks[t].pc = "posted"
    /\ IF ~GenerationCurrent(t)
       THEN /\ dTasks' = [dTasks EXCEPT ![t] = DrawEnded("discarded")]
            /\ UNCHANGED <<mBitmaps, dEvents, mPdfContentRect>>
       ELSE /\ dTasks' = [dTasks EXCEPT ![t] = DrawEnded("done")]
            /\ mPdfContentRect' =
                  calculatePdfContentRect(DocPageWidth(dTasks[t].bitmap.doc),
                                          DocPageHeight(dTasks[t].bitmap.doc), dSize)
            /\ IF SliceHeight(dTasks[t].bitmap) < 1
               THEN UNCHANGED <<mBitmaps, dEvents>>
               ELSE /\ mBitmaps' = Slices(dTasks[t].bitmap)
                    /\ dEvents' = Append(dEvents, "onPdfLoadComplete")
    /\ UNCHANGED <<dSource, dPage, dSize, mDirty, mRenderGeneration, dPosted,
                   nDrawUpdates, pdfMutex, pagingVars, mImageCache, cacheDriverVars,
                   zoomVars, pagerVars, drawZoomVars, mViewRects, mAnnotation,
                   nAnnotationUpdates, mDrawingMode, mActiveStroke, mStrokes,
                   drawingEvents, pointerDown, nTouches, nModeChanges>>

InitDrawable ==
    /\ viewKind = "paging"
    /\ InitView
    /\ InitDrawIdle
    /\ InitCacheDriverIdle
    /\ InitGestureIdle

NextDrawable ==
    \/ \E s \in Sources \cup {""} : DrawableSetSource(s)
    \/ \E p \in 0..2 : DrawableSetPage(p)
    \/ \E sz \in DrawSizes : DrawableOnSizeChanged(sz)
    \/ DrawablePostedRenderPdf
    \/ \E t \in 1..MaxDrawTasks : DrawTaskOpenFile(t)
    \/ \E t \in 1..MaxDrawTasks, o \in RenderOutcomes : DrawTaskRender(t, o)
    \/ \E t \in 1..MaxDrawTasks : DrawTaskAnnotationCheck(t)
    \/ \E t \in 1..MaxDrawTasks : DrawTaskDeliver(t)

SpecDrawable == InitDrawable /\ [][NextDrawable]_vars

\* DrawablePdfView showing document "A" at one size while React sets the
\* annotation and page props: every render composites the annotations of its
\* page (renderAnnotation) before it posts its bitmap.
NextAnnotation ==
    \/ DrawableSetSource("A")
    \/ \E p \in 0..1 : DrawableSetPage(p)
    \/ \E sz \in RenderSizes : DrawableOnSizeChanged(sz)
    \/ DrawablePostedRenderPdf
    \/ \E a \in AnnotationProps : DrawableSetAnnotation(a)
    \/ \E t \in 1..MaxDrawTasks : DrawTaskOpenFile(t)
    \/ \E t \in 1..MaxDrawTasks : DrawTaskRender(t, "ok")
    \/ \E t \in 1..MaxDrawTasks : DrawTaskAnnotationCheck(t)
    \/ \E t \in 1..MaxDrawTasks : DrawTaskAnnotate(t)
    \/ \E t \in 1..MaxDrawTasks : DrawTaskDeliver(t)

SpecAnnotation == InitDrawable /\ [][NextAnnotation]_vars

\* DrawablePdfView showing document "A" while its layout size changes: each
\* size cuts the view into SLICES rectangles and each delivered bitmap into
\* SLICES strips.
NextSlices ==
    \/ DrawableSetSource("A")
    \/ \E sz \in SliceSizes : DrawableOnSizeChanged(sz)
    \/ DrawablePostedRenderPdf
    \/ \E t \in 1..MaxDrawTasks : DrawTaskOpenFile(t)
    \/ \E t \in 1..MaxDrawTasks, o \in RenderOutcomes : DrawTaskRender(t, o)
    \/ \E t \in 1..MaxDrawTasks : DrawTaskAnnotationCheck(t)
    \/ \E t \in 1..MaxDrawTasks : DrawTaskDeliver(t)

SpecSlices == InitDrawable /\ [][NextSlices]_vars

\* The drawable view on a platform that rasterizes every page it is asked
\* for.  The main looper runs every posted renderPdf and every
\* withContext(Dispatchers.Main) block, and Dispatchers.IO runs every
\* coroutine that was launched.
NextDrawableLive ==
    \/ \E s \in Sources \cup {""} : DrawableSetSource(s)
    \/ \E p \in 0..2 : DrawableSetPage(p)
    \/ \E sz \in DrawSizes : DrawableOnSizeChanged(sz)
    \/ DrawablePostedRenderPdf
    \/ \E t \in 1..MaxDrawTasks : DrawTaskOpenFile(t)
    \/ \E t \in 1..MaxDrawTasks : DrawTaskRender(t, "ok")
    \/ \E t \in 1..MaxDrawTasks : DrawTaskAnnotationCheck(t)
    \/ \E t \in 1..MaxDrawTasks : DrawTaskDeliver(t)

SpecDrawableLive ==
    /\ InitDrawable
    /\ [][NextDrawableLive]_vars
    /\ WF_vars(DrawablePostedRenderPdf)
    /\ \A t \in 1..MaxDrawTasks : WF_vars(DrawTaskOpenFile(t))
    /\ \A t \in 1..MaxDrawTasks : WF_vars(DrawTaskRender(t, "ok"))
    /\ \A t \in 1..MaxDrawTasks : WF_vars(DrawTaskAnnotationCheck(t))
    /\ \A t \in 1..MaxDrawTasks : WF_vars(DrawTaskDeliver(t))

\* ------------------------------------------------ DrawablePdfView: zoom
drawZoomFrame == <<documentVars, mImageCache, pdfMutex, drawVars, cacheDriverVars,
                   zoomVars, pagerVars, inkVars>>

\* constrainOffset for one axis: the offset o of a view `extent` pixels long
\* at the given scale.
constrainOffset(scale, o, extent) ==
    IF scale <= 100 THEN 0
    ELSE coerceIn(o, extent - (extent * scale) \div 100, 0)

\* setMinZoom(minZoom).
DrawableSetMinZoom(minZoom) ==
    /\ uiPc = "idle"
    /\ dMinScale' = coerceAtLeast(minZoom, 50)
    /\ IF mScale < dMinScale'
       THEN /\ mScale' = dMinScale'
            /\ mOffsetX' = constrainOffset(mScale', mOffsetX, dSize[1])
            /\ mOffsetY' = constrainOffset(mScale', mOffsetY, dSize[2])
       ELSE UNCHANGED <<mScale, mOffsetX, mOffsetY>>
    /\ UNCHANGED <<dMaxScale, uiPc, drawZoomFrame>>

\* setMaxZoom(maxZoom).
DrawableSetMaxZoom(maxZoom) ==
    /\ uiPc = "idle"
    /\ dMaxScale' = coerceAtLeast(maxZoom, 100)
    /\ IF mScale > dMaxScale'
       THEN /\ mScale' = dMaxScale'
            /\ mOffsetX' = constrainOffset(mScale', mOffsetX, dSize[1])
            /\ mOffsetY' = constrainOffset(mScale', mOffsetY, dSize[2])
       ELSE UNCHANGED <<mScale, mOffsetX, mOffsetY>>
    /\ UNCHANGED <<dMinScale, uiPc, drawZoomFrame>>

\* The view has an area, so touches reach it, and it is in VIEW mode, where
\* onTouchEvent hands them to the gesture detectors.
GesturesReachView == dSize[1] > 0 /\ dSize[2] > 0 /\ mDrawingMode = "view"

\* mScaleDetector.onScale with scaleFactor f around the focus point.  coerceIn
\* throws IllegalArgumentException when mMinScale > mMaxScale; nothing catches
\* it.
DrawableOnScale(f, focus) ==
    /\ uiPc = "idle"
    /\ GesturesReachView
    /\ IF dMinScale > dMaxScale
       THEN /\ uiPc' = "crashed"
            /\ UNCHANGED <<mScale, mOffsetX, mOffsetY>>
       ELSE /\ uiPc' = uiPc
            /\ mScale' = coerceIn((mScale * f) \div 100, dMinScale, dMaxScale)
            /\ IF mScale' # mScale
               THEN /\ mOffsetX' = constrainOffset(mScale',
                           focus[1] - ((focus[1] - mOffsetX) * mScale') \div mScale,
                           dSize[1])
                    /\ mOffsetY' = constrainOffset(mScale',
                           focus[2] - ((focus[2] - mOffsetY) * mScale') \div mScale,
                           dSize[2])
               ELSE UNCHANGED <<mOffsetX, mOffsetY>>
    /\ UNCHANGED <<dMinScale, dMaxScale, drawZoomFrame>>

\* mGestureDetector.onScroll by <<distanceX, distanceY>>.
DrawableOnScroll(distance) ==
    /\ uiPc = "idle"
    /\ GesturesReachView
    /\ mScale > 100
    /\ mOffsetX' = constrainOffset(mScale, mOffsetX - distance[1], dSize[1])
    /\ mOffsetY' = constrainOffset(mScale, mOffsetY - distance[2], dSize[2])
    /\ UNCHANGED <<mScale, dMinScale, dMaxScale, uiPc, drawZoomFrame>>

\* mGestureDetector.onDoubleTap at the point tap.
DrawableOnDoubleTap(tap) ==
    /\ uiPc = "idle"
    /\ GesturesReachView
    /\ IF mScale > dMinScale
       THEN /\ mScale' = dMinScale
            /\ mOffsetX' = 0
            /\ mOffsetY' = 0
       ELSE /\ mScale' = Min(200, dMaxScale)
            /\ mOffsetX' = constrainOffset(mScale',
                                           tap[1] - (tap[1] * mScale') \div 100, dSize[1])
            /\ mOffsetY' = constrainOffset(mScale',
                                           tap[2] - (tap[2] * mScale') \div 100, dSize[2])
    /\ UNCHANGED <<dMinScale, dMaxScale, uiPc, drawZoomFrame>>

\* DrawablePdfView.resetZoom.
DrawableResetZoom ==
    /\ uiPc = "idle"
    /\ mScale' = dMinScale
    /\ mOffsetX' = 0
    /\ mOffsetY' = 0
    /\ UNCHANGED <<dMinScale, dMaxScale, uiPc, drawZoomFrame>>

\* Points of the view that gestures and touches land on.
TouchPoints == {<<0, 0>>, <<8, 8>>, <<16, 16>>}

\* Distances of one onScroll.
ScrollDistances == {<<-8, -8>>, <<8, 0>>}

\* The drawable view zoomed by gestures, props and commands.
NextDrawZoom ==
    \/ \E p \in 0..2 : uiPc = "idle" /\ DrawableSetPage(p)
    \/ \E z \in ZoomProps : DrawableSetMinZoom(z)
    \/ \E z \in ZoomProps : DrawableSetMaxZoom(z)
    \/ \E sz \in {<<16, 16>>} : uiPc = "idle" /\ DrawableOnSizeChanged(sz)
    \/ \E f \in ScaleFactors, focus \in TouchPoints : DrawableOnScale(f, focus)
    \/ \E d \in ScrollDistances : DrawableOnScroll(d)
    \/ \E tap \in TouchPoints : DrawableOnDoubleTap(tap)
    \/ DrawableResetZoom

SpecDrawZoom == InitDrawable /\ [][NextDrawZoom]_vars

\* --------------------------------------------- DrawablePdfView: drawing
\* Normalized coordinates are counted in thousandths: NormalizedOne is 1f.
NormalizedOne == 1000

DrawingModes == {"view", "draw", "erase", "highlight"}

\* Values of the drawingMode prop.
DrawingModeProps == DrawingModes \cup {"bogus"}

TouchActions == {"ACTION_DOWN", "ACTION_MOVE", "ACTION_UP", "ACTION_CANCEL"}

\* A prop update of React: setDrawingMode(mode), then
\* onAfterUpdateTransaction -> renderPdf.
DrawableSetDrawingMode(mode) ==
    /\ DrawAlive /\ uiPc = "idle"
    /\ nModeChanges < MaxModeChanges
    /\ nModeChanges' = nModeChanges + 1
    /\ IF mode \in DrawingModes
       THEN /\ mDrawingMode' = mode
            /\ dEvents' = dEvents
       ELSE /\ mDrawingMode' = "view"
            /\ dEvents' = Append(dEvents, "onPdfError")
    /\ renderPdf(dSize, dSource, mDirty)
    /\ UNCHANGED <<dSource, dPage, dSize, mBitmaps, dPosted, nDrawUpdates, pdfMutex,
                   pagingVars, mImageCache, cacheDriverVars, zoomVars, pagerVars,
                   drawZoomVars, mViewRects, mAnnotation, nAnnotationUpdates,
                   mPdfContentRect, mActiveStroke, mStrokes, drawingEvents, pointerDown,
                   nTouches>>

\* RectF.isEmpty.
isEmpty(rect) == rect.left >= rect.right \/ rect.top >= rect.bottom

\* screenToNormalized(screenX, screenY).
screenToNormalized(screen) ==
    LET contentX == ((screen[1] - mOffsetX) * 100) \div mScale
        contentY == ((screen[2] - mOffsetY) * 100) \div mScale
    IN  IF isEmpty(mPdfContentRect)
        THEN <<(contentX * NormalizedOne) \div dSize[1],
               (contentY * NormalizedOne) \div dSize[2]>>
        ELSE <<((contentX - mPdfContentRect.left) * NormalizedOne)
                   \div (mPdfContentRect.right - mPdfContentRect.left),
               ((contentY - mPdfContentRect.top) * NormalizedOne)
                   \div (mPdfContentRect.bottom - mPdfContentRect.top)>>

DrawingEvent(name, path) == [name |-> name, path |-> path]

\* eraseStrokesAt: a stroke is hit when one of its points is nearer to p than
\* threshold = eraseThresholdPercent / mScale, that is when
\* hypot(dx, dy) < threshold.
IsErasedAt(stroke, p) ==
    LET threshold == (eraseThresholdPercent * 100) \div mScale IN
    \E i \in 1..Len(stroke) :
        (stroke[i][1] - p[1]) * (stroke[i][1] - p[1])
          + (stroke[i][2] - p[2]) * (stroke[i][2] - p[2]) < threshold * threshold

\* eraseStrokesAt(x, y): the strokes left, and the onStrokeRemoved events.
eraseStrokesAt(p) ==
    LET Hit(stroke) == IsErasedAt(stroke, p)
        Kept(stroke) == ~IsErasedAt(stroke, p)
        toRemove == SelectSeq(mStrokes, Hit)
    IN  /\ mStrokes' = SelectSeq(mStrokes, Kept)
        /\ drawingEvents' = drawingEvents
               \o [i \in 1..Len(toRemove) |-> DrawingEvent("onStrokeRemoved", toRemove[i])]
        /\ mActiveStroke' = mActiveStroke

\* handleTouchStart(x, y).
handleTouchStart(p) ==
    IF mDrawingMode \in {"draw", "highlight"}
    THEN /\ mActiveStroke' = <<p>>
         /\ drawingEvents' = Append(drawingEvents, DrawingEvent("onDrawingStart", <<>>))
         /\ mStrokes' = mStrokes
    ELSE IF mDrawingMode = "erase"
    THEN eraseStrokesAt(p)
    ELSE UNCHANGED <<mActiveStroke, mStrokes, drawingEvents>>

\* handleTouchMove(x, y).
handleTouchMove(p) ==
    IF mDrawingMode \in {"draw", "highlight"}
    THEN /\ mActiveStroke' = IF mActiveStroke # <<>> THEN Append(mActiveStroke, p)
                             ELSE mActiveStroke
         /\ UNCHANGED <<mStrokes, drawingEvents>>
    ELSE IF mDrawingMode = "erase"
    THEN eraseStrokesAt(p)
    ELSE UNCHANGED <<mActiveStroke, mStrokes, drawingEvents>>

\* handleTouchEnd().
handleTouchEnd ==
    IF mDrawingMode \in {"draw", "highlight"}
    THEN /\ mActiveStroke' = <<>>
         /\ IF Len(mActiveStroke) >= 2
            THEN /\ mStrokes' = Append(mStrokes, mActiveStroke)
                 /\ drawingEvents' = drawingEvents
                        \o <<DrawingEvent("onStrokeEnd", mActiveStroke),
                             DrawingEvent("onDrawingEnd", <<>>)>>
            ELSE /\ mStrokes' = mStrokes
                 /\ drawingEvents' =
                        Append(drawingEvents, DrawingEvent("onDrawingEnd", <<>>))
    ELSE IF mDrawingMode = "erase"
    THEN /\ drawingEvents' = Append(drawingEvents, DrawingEvent("onDrawingEnd", <<>>))
         /\ UNCHANGED <<mActiveStroke, mStrokes>>
    ELSE UNCHANGED <<mActiveStroke, mStrokes, drawingEvents>>

\* onTouchEvent(event) for one event of a pointer.  The platform sends
\* ACTION_DOWN first, then moves, then ACTION_UP or ACTION_CANCEL.  In VIEW
\* mode the event goes to the gesture detectors, whose callbacks are the zoom
\* actions.
onTouchEvent(action, screen) ==
    /\ DrawAlive /\ uiPc = "idle"
    /\ dSize[1] > 0 /\ dSize[2] > 0
    /\ nTouches < MaxTouches
    /\ pointerDown = (action # "ACTION_DOWN")
    /\ nTouches' = nTouches + 1
    /\ pointerDown' = (action \in {"ACTION_DOWN", "ACTION_MOVE"})
    /\ IF mDrawingMode = "view"
       THEN UNCHANGED <<mActiveStroke, mStrokes, drawingEvents>>
       ELSE IF action = "ACTION_DOWN" THEN handleTouchStart(screenToNormalized(screen))
       ELSE IF action = "ACTION_MOVE" THEN handleTouchMove(screenToNormalized(screen))
       ELSE handleTouchEnd
    /\ UNCHANGED <<drawVars, pdfMutex, pagingVars, mImageCache, cacheDriverVars,
                   zoomVars, pagerVars, drawZoomVars, mAnnotation, nAnnotationUpdates,
                   mPdfContentRect, mDrawingMode, nModeChanges>>

\* Sizes the view that is drawn on is laid out at.
StrokeSizes == {<<16, 32>>}

\* Points of the view the finger is put on and moved to while drawing.
StrokePoints == {<<0, 0>>, <<8, 16>>}

\* No render is under way: nothing is posted and every coroutine has ended.
RenderIdle ==
    /\ dPosted = 0
    /\ \A t \in 1..Len(dTasks) : dTasks[t].pc \in {"done", "discarded", "failed"}

\* The drawable view showing page 0 of document A, zoomed and panned in VIEW
\* mode and drawn on in the other modes.  The user touches the view and
\* changes the mode while no render is under way.
NextStroke ==
    \/ DrawableSetSource("A")
    \/ \E sz \in StrokeSizes : DrawableOnSizeChanged(sz)
    \/ DrawablePostedRenderPdf
    \/ \E t \in 1..MaxDrawTasks : DrawTaskOpenFile(t)
    \/ \E t \in 1..MaxDrawTasks : DrawTaskRender(t, "ok")
    \/ \E t \in 1..MaxDrawTasks : DrawTaskAnnotationCheck(t)
    \/ \E t \in 1..MaxDrawTasks : DrawTaskDeliver(t)
    \/ \E m \in DrawingModeProps : RenderIdle /\ DrawableSetDrawingMode(m)
    \/ \E tap \in StrokePoints : RenderIdle /\ DrawableOnDoubleTap(tap)
    \/ \E d \in ScrollDistances : RenderIdle /\ DrawableOnScroll(d)
    \/ \E a \in TouchActions, p \in StrokePoints : RenderIdle /\ onTouchEvent(a, p)

SpecStroke == InitDrawable /\ [][NextStroke]_vars

\* ------------------------------------------------- the page cache, driven
cacheFrame == <<pagingVars, pdfMutex, drawVars, gestureVars>>

\* mImageCache.put(key, bitmap).
CachePut(k, v) ==
    /\ nCacheOps < MaxCacheOps
    /\ nCacheOps' = nCacheOps + 1
    /\ mImageCache' = LruPut(mImageCache, k, v)
    /\ lastPut' = [op |-> nCacheOps + 1, key |-> k, value |-> v,
                   evicted |-> k \notin CacheKeys(mImageCache'),
                   dropped |-> Len(CacheRemove(mImageCache, k)) + 1 - Len(mImageCache')]
    /\ UNCHANGED <<lastGet, cacheFrame>>

\* mImageCache.get(key).
CacheGet(k) ==
    /\ nCacheOps < MaxCacheOps
    /\ nCacheOps' = nCacheOps + 1
    /\ mImageCache' = LruTouch(mImageCache, k)
    /\ lastGet' = [op |-> nCacheOps + 1, key |-> k, value |-> LruGet(mImageCache, k)]
    /\ UNCHANGED <<lastPut, cacheFrame>>

\* mImageCache.evictAll().
CacheEvictAll ==
    /\ nCacheOps < MaxCacheOps
    /\ nCacheOps' = nCacheOps + 1
    /\ mImageCache' = evictAll(mImageCache)
    /\ UNCHANGED <<lastPut, lastGet, cacheFrame>>

NextCache ==
    \/ \E k \in DrivenKeys, sz \in DrivenSizes : CachePut(k, Bitmap("A", k, sz[1], sz[2], 0))
    \/ \E k \in DrivenKeys : CacheGet(k)
    \/ CacheEvictAll

SpecCache == InitDrawable /\ [][NextCache]_vars

\* ----------------------------------------------------------------- claims
\* A render task is inside pdfMutex.withLock.
InCriticalSection(t) == tasks[t].pc \in {"locked", "opened"}

\* C1: at most one render task at a time is between opening a page and
\* closing it on a given document handle, and that task holds pdfMutex.
C1_MutualExclusion ==
    /\ \A t \in 1..Len(tasks) : InCriticalSection(t) => pdfMutex = t
    /\ \A t1, t2 \in 1..Len(tasks) :
          (t1 # t2 /\ InCriticalSection(t1) /\ InCriticalSection(t2))
              => tasks[t1].renderer # tasks[t2].renderer

\* Two render tasks of one handle: one has a page open, the other waits.
C1_Contention ==
    \E t1, t2 \in 1..Len(tasks) :
        /\ t1 # t2
        /\ tasks[t1].pc = "opened"
        /\ tasks[t2].pc = "queued"
        /\ tasks[t1].renderer = tasks[t2].renderer
        /\ pdfMutex = t1

\* The UI thread runs closePdf in this step.
closePdfStep == uiPc \in {"reload", "detach"} /\ uiPc' # uiPc

\* C2: closePdf never calls close() on a handle while a render task has a
\* page of it open, and no render task calls openPage on a handle that has
\* been closed.
C2_CloseAfterRenders ==
    [][ /\ (closePdfStep /\ mPdfRenderer # 0)
            => \A t \in 1..Len(tasks) :
                   ~(PageOpenBy(t) /\ tasks[t].renderer = mPdfRenderer)
        /\ \A t \in 1..Len(tasks) :
               (tasks[t].pc = "locked" /\ tasks'[t].pc # "locked")
                   => ~handles[tasks[t].renderer].closed ]_vars

\* The page of stale render t has been requested again since the invalidation:
\* a later render of it is under way, or has put its bitmap on display.
RenderedAgain(t) ==
    \E u \in (t + 1)..Len(tasks) :
        /\ ~tasks[u].stale
        /\ \/ tasks[u].pageIndex = tasks[t].pageIndex
           \/ LET shown == holders[tasks[t].holder].image IN
              shown.task = u /\ shown.page = tasks[t].pageIndex

\* C4: once its page has been requested again, a render scheduled before the
\* latest cache invalidation is not shown by a page view and does not replace
\* the cache entry written by a render scheduled after the invalidation.
C4_StaleRenderDiscarded ==
    [][ \A t \in 1..Len(tasks) :
           tasks[t].stale =>
               /\ (tasks[t].pc = "posted" /\ tasks'[t].pc # "posted" /\ RenderedAgain(t))
                      => holders' = holders
               /\ (tasks[t].pc = "rendered" /\ tasks'[t].pc # "rendered")
                      => LET old == LruGet(mImageCache, tasks[t].pageIndex) IN
                         (old # NoBitmap /\ ~tasks[old.task].stale)
                             => LruGet(mImageCache', tasks[t].pageIndex) = old ]_vars

\* The render of the task has been requested and has not completed.
RenderPending(t) == tasks[t].pc \in {"queued", "locked", "opened"}

\* C5: no two renders of the same page of the same handle at the same target
\* size are pending at once.
C5_SingleFlight ==
    \A t1, t2 \in 1..Len(tasks) :
        (t1 # t2 /\ RenderPending(t1) /\ RenderPending(t2))
            => <<tasks[t1].renderer, tasks[t1].pageIndex, tasks[t1].viewWidth,
                 tasks[t1].pageHeight>>
               # <<tasks[t2].renderer, tasks[t2].pageIndex, tasks[t2].viewWidth,
                   tasks[t2].pageHeight>>

\* C6: once a document is open, every cached bitmap and every bitmap shown
\* by a bound page view was rendered from that document.
C6_CacheScopedToDocument ==
    (uiPc = "idle" /\ mPdfRenderer # 0) =>
        /\ \A i \in 1..Len(mImageCache) :
               mImageCache[i].value.doc = handles[mPdfRenderer].doc
        /\ \A h \in DOMAIN holders :
               (holders[h].pos # NoPosition /\ holders[h].image # NoBitmap)
                   => holders[h].image.doc = handles[mPdfRenderer].doc

\* C9: no render task ends as an uncaught throwable.
C9_TypedOutcome == \A t \in 1..Len(tasks) : tasks[t].pc # "crashed"

\* C10: the step in which a render fails sends an error event, and starts no
\* other render.
C10_FailureObserved ==
    [][ \A t \in 1..Len(tasks) :
           (tasks[t].pc # "failed" /\ tasks'[t].pc = "failed")
               => /\ Len(events') = Len(events) + 1
                  /\ events'[Len(events')].type = "onPdfError"
                  /\ Len(tasks') = Len(tasks) ]_vars

\* C3: the strips on display change only when a render whose captured
\* generation equals mRenderGeneration is delivered, and then to the strips of
\* that render's bitmap; the delivery of any other render changes nothing.
C3_GenerationGuard ==
    [][ /\ \A t \in 1..Len(dTasks) :
               (dTasks[t].pc = "posted" /\ dTasks'[t].pc # "posted"
                /\ dTasks[t].generation # mRenderGeneration)
                   => (mBitmaps' = mBitmaps /\ dEvents' = dEvents)
        /\ mBitmaps' # mBitmaps
               => \E t \in 1..Len(dTasks) :
                      /\ dTasks[t].pc = "posted" /\ dTasks'[t].pc # "posted"
                      /\ dTasks[t].generation = mRenderGeneration
                      /\ mBitmaps' = Slices(dTasks[t].bitmap) ]_vars

\* A superseded render was delivered after the render that superseded it
\* had been put on display.
C3_SupersededDiscarded ==
    /\ \E t \in 1..Len(dTasks) : dTasks[t].pc = "discarded"
    /\ mBitmaps[1].of # NoBitmap

C8_GetAfterPut ==
    (lastGet.op = lastPut.op + 1 /\ lastGet.key = lastPut.key /\ ~lastPut.evicted)
        => lastGet.value = lastPut.value

\* A get right after a put that replaced the value of a key already cached.
C8_GetAfterOverwrite ==
    /\ lastGet.op = lastPut.op + 1
    /\ lastGet.key = lastPut.key
    /\ ~lastPut.evicted
    /\ lastGet.value = lastPut.value
    /\ lastPut.op >= 2
    /\ Len(mImageCache) >= 2

\* C11: no render task enters the mutex-protected section for a page index
\* outside [0, pageCount) of the document it renders.
C11_InvalidRequestFailsFast ==
    [][ \A t \in 1..Len(dTasks) :
           (dTasks[t].pc = "fileOpen" /\ dTasks'[t].pc # "fileOpen")
               => (dPage >= 0 /\ dPage < DocPageCount(dTasks[t].source)) ]_vars

\* C13: whenever the UI thread is between handlers, the page count and the
\* first-page dimensions are those of the open document, and are zero while
\* no document is open.
C13_MetadataOfOpenDocument ==
    uiPc = "idle" =>
        IF mPdfRenderer = 0
        THEN mActualPageCount = 0 /\ mPdfPageWidth = 0 /\ mPdfPageHeight = 0
        ELSE /\ mActualPageCount = DocPageCount(handles[mPdfRenderer].doc)
             /\ mPdfPageWidth = DocPageWidth(handles[mPdfRenderer].doc)
             /\ mPdfPageHeight = DocPageHeight(handles[mPdfRenderer].doc)

\* C15: the UI thread closes or opens a document handle only while no render
\* task holds pdfMutex, as it must if the UI thread holds pdfMutex itself.
C15_HandleAccessUnderMutex ==
    [][ (closePdfStep /\ (mPdfRenderer # 0 \/ Len(handles') > Len(handles)))
            => pdfMutex = 0 ]_vars

\* C16: a bind is answered from the cache only with a bitmap rendered for the
\* current width of the view.
C16_CachedBitmapHasCurrentWidth ==
    [][ \A h \in DOMAIN holders :
           (holders'[h] # holders[h] /\ holders'[h].pos # NoPosition
            /\ holders'[h].image # NoBitmap /\ tasks' = tasks
            /\ holders'[h].image = LruGet(mImageCache, holders'[h].pos))
               => holders'[h].image.w = width ]_vars

\* C20: while no render task holds pdfMutex, no page is open on any document
\* handle.
C20_PageClosedOutsideMutex ==
    pdfMutex = 0 => \A r \in 1..Len(handles) : handles[r].curPage = NoPage

\* C12: a closePdf that finds the renderer and the descriptor already null
\* raises nothing and closes nothing; no descriptor is closed twice and
\* close() is never called on a renderer that is already closed.
C12_IdempotentClose ==
    [][ closePdfStep =>
           /\ \A f \in 1..Len(fds) : fds'[f].closeCalls <= 1
           /\ mPdfRenderer # 0 => ~handles[mPdfRenderer].closed
           /\ (mPdfRenderer = 0 /\ mFileDescriptor = 0)
                  => /\ uiPc' # "crashed"
                     /\ SubSeq(handles', 1, Len(handles)) = handles
                     /\ SubSeq(fds', 1, Len(fds)) = fds ]_vars

\* The view was detached after the open of X had failed: closePdf has run
\* twice in a row, and the descriptor of the document before it was closed once.
C12_ClosedTwice ==
    /\ ~attached /\ uiPc = "idle"
    /\ mSource = "X"
    /\ Len(events) = 2
    /\ events[1].type = "onPdfLoadComplete"
    /\ events[2].type = "onPdfError"
    /\ Len(fds) = 1 /\ fds[1].closeCalls = 1

C17_SwipeFollowsZoom ==
    \A h \in DOMAIN holders :
        Shown(h) => (isUserInputEnabled <=> ~isZoomed(pageZoom[h]))

\* C18: the scale of the drawable view stays within [minZoom, maxZoom].
C18_ScaleWithinBounds == dMinScale <= mScale /\ mScale <= dMaxScale

\* C19: scrollToPage(p) with p outside [0, pageCount) changes neither the
\* current page nor the page-change events sent; with p inside, the current
\* page is p afterwards.
C19_ScrollToPage ==
    [][ \A p \in ScrollArgs, a \in BOOLEAN :
           scrollToPage(p, a) =>
               IF p < 0 \/ p >= mActualPageCount
               THEN mCurrentPage' = mCurrentPage /\ nPageChanges' = nPageChanges
               ELSE mCurrentPage' = p ]_vars

\* C21: a step of a render of DrawablePdfView whose captured generation is no
\* longer mRenderGeneration sends no event, whether the render succeeded or
\* failed.
C21_SupersededRenderIsSilent ==
    [][ \A t \in 1..Len(dTasks) :
           (dTasks'[t] # dTasks[t]
            /\ dTasks[t].pc \in {"queued", "fileOpen", "rendered", "annotating", "posted"}
            /\ dTasks[t].generation # mRenderGeneration)
               => dEvents' = dEvents ]_vars

\* C22: the UI thread is never inside closePdf waiting for a pdfMutex that a
\* render task holds.
C22_UiThreadNeverWaits ==
    ~(viewKind = "paging" /\ uiPc \in {"reload", "detach"} /\ pdfMutex > 0)

\* The source, page and size of the drawable view can be rendered.
FinalRenderable ==
    /\ ValidPdf(dSource)
    /\ dPage >= 0 /\ dPage < DocPageCount(dSource)
    /\ dSize[1] >= 1 /\ dSize[2] \div SLICES >= 1

\* The strips on display were cut from a render of the source, page and size
\* the view has now, and a load-complete event was sent.
FinalDisplayed ==
    /\ \A i \in 1..SLICES :
           /\ mBitmaps[i].of.doc = dSource
           /\ mBitmaps[i].of.page = dPage
           /\ mBitmaps[i].of.w = dSize[1]
           /\ mBitmaps[i].of.h = dSize[2]
    /\ \E e \in 1..Len(dEvents) : dEvents[e] = "onPdfLoadComplete"

Tiles(lo, hi, h) ==
    /\ \A i \in 1..SLICES : lo[i] < hi[i]
    /\ lo[1] = 0
    /\ \A i \in 1..(SLICES - 1) : hi[i] = lo[i + 1]
    /\ hi[SLICES] = h

\* C29: for every bitmap height h >= SLICES the SLICES strips shown by the view
\* are non-empty, contiguous, non-overlapping and cover the rows [0, h) of the
\* bitmap exactly; likewise the SLICES view rectangles cover [0, height) of a
\* view at least SLICES pixels high.
C29_SlicesTileTheBitmap ==
    /\ (mBitmaps[1].of # NoBitmap /\ mBitmaps[1].of.h >= SLICES)
          => Tiles([i \in 1..SLICES |-> mBitmaps[i].y],
                   [i \in 1..SLICES |-> mBitmaps[i].y + mBitmaps[i].h],
                   mBitmaps[1].of.h)
    /\ dSize[2] >= SLICES
          => Tiles([i \in 1..SLICES |-> mViewRects[i].top],
                   [i \in 1..SLICES |-> mViewRects[i].bottom],
                   dSize[2])

\* C25: compositing annotations never makes a render fail.  A render task that
\* has rasterized its page and is in renderAnnotation goes on to post its
\* bitmap, whatever the annotation list holds (empty lists, strokes of fewer
\* than two points, no entry for the page) and whatever the annotation and
\* page props are changed to while it runs.
C25_AnnotationNeverFailsRender ==
    [][ \A t \in 1..Len(dTasks) :
           (dTasks[t].pc \in {"rendered", "annotating"} /\ dTasks'[t] # dTasks[t])
              => dTasks'[t].pc \in {"annotating", "posted"} ]_vars

\* C24: every point of every stroke emitted through onStrokeEnd has both
\* coordinates within [0, 1], for any touch position, zoom scale, pan offset
\* and resize mode.
C24_StrokePointsNormalized ==
    \A e \in 1..Len(drawingEvents) :
        drawingEvents[e].name = "onStrokeEnd"
            => \A i \in 1..Len(drawingEvents[e].path) :
                   /\ drawingEvents[e].path[i][1] \in 0..NormalizedOne
                   /\ drawingEvents[e].path[i][2] \in 0..NormalizedOne

\* The onDrawingStart and onDrawingEnd events sent so far, in order.
StartEndEvents ==
    LET IsStartEnd(e) == e.name \in {"onDrawingStart", "onDrawingEnd"}
    IN  SelectSeq(drawingEvents, IsStartEnd)

\* C26: for any sequence of touch events and drawingMode changes,
\* onDrawingStart and onDrawingEnd strictly alternate, beginning with
\* onDrawingStart, and once the touch has ended or was cancelled every
\* onDrawingStart has its onDrawingEnd.
C26_StartEndAlternate ==
    /\ \A i \in 1..Len(StartEndEvents) :
           StartEndEvents[i].name = IF i % 2 = 1 THEN "onDrawingStart"
                                    ELSE "onDrawingEnd"
    /\ ~pointerDown => Len(StartEndEvents) % 2 = 0

\* ViewPager2 after notifyDataSetChanged: at the next layout pass it snaps to
\* the last page left when currentItem is past the end, and reports it to the
\* OnPageChangeCallback.
ViewPagerSnapAfterDataSetChange ==
    /\ Alive /\ uiPc = "idle" /\ attached /\ viewKind = "paging"
    /\ width > 0 /\ height > 0
    /\ mActualPageCount > 0 /\ currentItem >= mActualPageCount
    /\ currentItem' = mActualPageCount - 1
    /\ onPageSelected(mActualPageCount - 1)
    /\ UNCHANGED <<scrollY, nScrolls, pagerFrame>>

\* Documents of different length shown one after the other, their pages
\* visited by scrollToPage, by swipes and by scrolling.
NextPageRange ==
    \/ \E s \in {"A", "B"} : setSource(s)
    \/ UiReloadPdf
    \/ \E sz \in PagerSizes : onSizeChanged(sz)
    \/ \E p \in ScrollArgs, a \in BOOLEAN : scrollToPage(p, a)
    \/ \E p \in 0..1 : UserSwipe(p)
    \/ \E y \in {0, 8, 16} : onScrolled(y)
    \/ ViewPagerSnapAfterDataSetChange

SpecPageRange == Init /\ [][NextPageRange]_vars

\* C28: whenever a document with pageCount > 0 is open, 0 <= currentPage <
\* pageCount, also right after the source has been replaced by a document
\* with fewer pages; and every page index reported through onPageChange lies
\* in that range.
C28_CurrentPageInRange ==
    /\ [](mPdfRenderer # 0 /\ mActualPageCount > 0
             => mCurrentPage \in 0..(mActualPageCount - 1))
    /\ [][nPageChanges' # nPageChanges
             => mCurrentPage' \in 0..(mActualPageCount' - 1)]_vars

\* View.onAttachedToWindow: neither view overrides it, so a view that comes
\* back to the window keeps the renderScope and the renderer that
\* onDetachedFromWindow left behind.
onAttachedToWindow ==
    /\ Alive /\ uiPc = "idle" /\ ~attached
    /\ attached' = TRUE
    /\ UNCHANGED <<viewKind, mSource, mPdfRenderer, mFileDescriptor, mPdfPageWidth,
                   mPdfPageHeight, mActualPageCount, mImageCache, mPreviousWidth,
                   mNeedsInitialRender, viewSize, scopeCancelled, holders, tasks,
                   handles, fds, pdfMutex, uiPc, events, nReloads>>
    /\ UNCHANGED <<drawVars, cacheDriverVars, gestureVars>>

\* A view that shows document A, is laid out, binds pages, and is taken off
\* the window and put back.  The RecyclerView binds pages in the layout pass
\* of a view that has an area.  Every rasterization succeeds.  The main
\* looper runs every handler that has begun and every withContext block, and
\* Dispatchers.IO runs every coroutine.
NextAttachLive ==
    \/ setSource("A")
    \/ UiReloadPdf
    \/ \E sz \in RenderSizes : onSizeChanged(sz)
    \/ \E h \in 1..NumHolders, p \in 0..1 :
          width > 0 /\ height > 0 /\ onBindViewHolder(h, p)
    \/ onDetachedFromWindow
    \/ UiDetachClose
    \/ onAttachedToWindow
    \/ \E t \in 1..MaxTasks : TaskAcquire(t)
    \/ \E t \in 1..MaxTasks : TaskOpenPage(t)
    \/ \E t \in 1..MaxTasks : TaskRender(t, "ok")
    \/ \E t \in 1..MaxTasks : TaskPut(t)
    \/ \E t \in 1..MaxTasks : TaskDeliver(t)
    \/ \E t \in 1..MaxTasks : TaskCancelled(t)

SpecAttachLive ==
    /\ Init
    /\ [][NextAttachLive]_vars
    /\ WF_vars(UiReloadPdf)
    /\ WF_vars(UiDetachClose)
    /\ \A t \in 1..MaxTasks : WF_vars(TaskAcquire(t))
    /\ \A t \in 1..MaxTasks : WF_vars(TaskOpenPage(t))
    /\ \A t \in 1..MaxTasks : WF_vars(TaskRender(t, "ok"))
    /\ \A t \in 1..MaxTasks : WF_vars(TaskPut(t))
    /\ \A t \in 1..MaxTasks : WF_vars(TaskDeliver(t))
    /\ \A t \in 1..MaxTasks : WF_vars(TaskCancelled(t))

\* Holder h is bound to a page of an attached, laid out view with a valid
\* source, and shows no bitmap.
AwaitsBitmap(h) ==
    /\ attached /\ uiPc = "idle"
    /\ ValidPdf(mSource) /\ width > 0 /\ height > 0
    /\ holders[h].pos # NoPosition
    /\ holders[h].image = NoBitmap

\* C27: in an attached view with a valid source and a positive size, every
\* bound page that has no bitmap eventually gets one, unless its holder is
\* unbound or the view leaves the window first; this holds after a detach and
\* re-attach as well.
C27_BoundPageGetsBitmap ==
    \A h \in 1..NumHolders :
        AwaitsBitmap(h) ~> (holders[h].image # NoBitmap
                            \/ holders[h].pos = NoPosition
                            \/ ~attached)

\* The process runs: no uncaught exception or error has ended it.
ProcessAlive == Alive /\ DrawAlive

\* A PagingPdfView and a DrawablePdfView of one application, created by view
\* managers that hand them the same pdfMutex.  Renders succeed, throw or run
\* out of memory; the source of the paging view is set and the view is
\* detached while renders are under way.  A render task is followed until it
\* has left withLock.
NextLock ==
    \/ ProcessAlive /\ setSource("A")
    \/ ProcessAlive /\ UiReloadPdf
    \/ \E sz \in RenderSizes : ProcessAlive /\ onSizeChanged(sz)
    \/ \E h \in 1..NumHolders, p \in 0..1 : ProcessAlive /\ onBindViewHolder(h, p)
    \/ ProcessAlive /\ onDetachedFromWindow
    \/ ProcessAlive /\ UiDetachClose
    \/ \E t \in 1..MaxTasks : ProcessAlive /\ TaskAcquire(t)
    \/ \E t \in 1..MaxTasks : ProcessAlive /\ TaskOpenPage(t)
    \/ \E t \in 1..MaxTasks, o \in RenderOutcomes : ProcessAlive /\ TaskRender(t, o)
    \/ \E t \in 1..MaxTasks : ProcessAlive /\ TaskCancelled(t)
    \/ ProcessAlive /\ DrawableSetSource("A")
    \/ \E sz \in RenderSizes : ProcessAlive /\ DrawableOnSizeChanged(sz)
    \/ \E t \in 1..MaxDrawTasks : ProcessAlive /\ DrawTaskOpenFile(t)
    \/ \E t \in 1..MaxDrawTasks, o \in RenderOutcomes :
          ProcessAlive /\ DrawTaskRender(t, o)

\* The main looper runs every handler that has begun, the lock is handed to a
\* thread that waits for it, and a thread inside withLock runs on.
SpecLock ==
    /\ InitPaging
    /\ [][NextLock]_vars
    /\ WF_vars(ProcessAlive /\ UiReloadPdf)
    /\ WF_vars(ProcessAlive /\ UiDetachClose)
    /\ \A t \in 1..MaxTasks : WF_vars(ProcessAlive /\ TaskAcquire(t))
    /\ \A t \in 1..MaxTasks : WF_vars(ProcessAlive /\ TaskOpenPage(t))
    /\ \A t \in 1..MaxTasks :
          WF_vars(\E o \in RenderOutcomes : ProcessAlive /\ TaskRender(t, o))
    /\ \A t \in 1..MaxTasks : WF_vars(ProcessAlive /\ TaskCancelled(t))
    /\ \A t \in 1..MaxDrawTasks :
          WF_vars(\E o \in RenderOutcomes : ProcessAlive /\ DrawTaskRender(t, o))

\* Render task t of the paging view is at pdfMutex.withLock of renderPage.
WaitsForLock(t) == t <= Len(tasks) /\ tasks[t].pc = "queued"

\* The UI thread is at closePdf of reloadPdf or of onDetachedFromWindow.
UiWaitsForLock == uiPc \in {"reload", "detach"}

\* Render t of the drawable view is at pdfMutex.withLock of renderPdf.
DrawWaitsForLock(t) == t <= Len(dTasks) /\ dTasks[t].pc = "fileOpen"

\* No thread is waiting for pdfMutex.
NobodyWaitsForLock ==
    /\ \A t \in 1..MaxTasks : ~WaitsForLock(t)
    /\ ~UiWaitsForLock
    /\ \A t \in 1..MaxDrawTasks : ~DrawWaitsForLock(t)

\* C30: every thread that requests the shared pdfMutex eventually acquires
\* it, and every holder releases it on success and on every failure path: the
\* lock is only ever held by a render task that is inside withLock, and as
\* long as the process runs there is again and again a moment at which no
\* render task of either view and no closePdf of the UI thread is waiting for
\* the lock, so that no thread waits for ever and the UI thread and the render
\* tasks never wait for each other.
C30_LockAcquiredAndReleased ==
    /\ [](pdfMutex # 0 => /\ pdfMutex \in 1..Len(tasks)
                          /\ tasks[pdfMutex].pc \in {"locked", "opened"})
    /\ []<>(NobodyWaitsForLock \/ ~ProcessAlive)

\* A render task has failed, another one holds the lock, and both the UI
\* thread (in closePdf of onDetachedFromWindow) and a render of the drawable
\* view wait for it.
C30_WaitersBehindHolder ==
    /\ viewKind = "paging" /\ uiPc = "detach"
    /\ pdfMutex # 0
    /\ \E t \in 1..Len(tasks) : tasks[t].pc = "failed"
    /\ \E t \in 1..Len(dTasks) : dTasks[t].pc = "fileOpen"

====
